---- MODULE Spec2Model ----
(***************************************************************************)
(* A model of the chat-history export parsers (chat_history/parsers.py),   *)
(* the provider merge, and the in-memory service built over the parsed     *)
(* conversations (chat_history/services.py).                               *)
(*                                                                         *)
(* JSON values are tagged records, so that the duck-typed accesses of the  *)
(* Python code (isinstance checks, `x or {}`, `.get`) are modelled by what *)
(* they do on every shape of value.  Text is a sequence of one-character   *)
(* strings, so that strip(), isalpha() and concatenation are computed.     *)
(* Identifiers (conversation, node and message ids, dictionary keys) are   *)
(* atomic strings.  Timestamps are natural numbers (seconds).              *)
(***************************************************************************)
EXTENDS Integers, Sequences, FiniteSets, TLC

VARIABLES
    chunk,              \* _parse_gemini_chunk: the raw chunk (argument)
    blocks,             \* _parse_gemini_chunk: the returned list of ContentBlock
    chunkState,         \* "call" before the call, "returned" after it
    provider,           \* parse_<provider>_export: the parser that is called
    raw_conversations,  \* the top-level JSON value of the export file
    parsed,             \* the list of ConversationRecord the call returns
    parseState,         \* "call", then "returned" or "raised" (an exception)
    export_files,       \* the JSON value of the export file at each provider's path
    export_media,       \* the media files under the ChatGPT export directory
    all_conversations,  \* load_provider_conversations: the returned list
    mergeState,         \* "call", then "returned" or "raised"
    conversations,      \* ChatHistoryService.conversations
    _conversation_map,  \* ChatHistoryService._conversation_map
    _message_map,       \* ChatHistoryService._message_map
    _asset_registry,    \* ChatHistoryService._asset_registry
    loadPc,             \* the statement of load() that runs next, "idle" outside a call
    loadIndex,          \* load(): the position of the loop over self.conversations
    cycle,              \* the number of calls of load() so far
    loaded,             \* how the latest call of load() ended: "never", "done", "raised"
    settings_store,     \* ChatHistoryService.settings_store: "None" or "SettingsStore"
    favorites,          \* the rows of the favorites table of the settings database
    response,           \* what the latest call of a serving method returned
    first_item,         \* _detect_provider: the first item of an export file
    detected,           \* the provider tag the call returns, or None
    detectState,        \* "call", then "returned"
    output_dir,         \* _cmd_export: the export directory, [exists, dirs, files]
    args,               \* the arguments of the export command
    removed_count,      \* the number of files the clean step has removed
    exit_code,          \* what _cmd_export returned, None while it has not run
    call,               \* a call of a function: its name and arguments
    returned,           \* what the call returned, None while it has not
    connections         \* SettingsStore.toggle_favorite: the calls in progress

chunkVars == <<chunk, blocks, chunkState>>
parseVars == <<provider, raw_conversations, parsed, parseState>>
fileVars == <<export_files, export_media>>
mergeVars == <<all_conversations, mergeState>>
structureVars == <<conversations, _conversation_map, _message_map, _asset_registry>>
serviceVars ==
    <<structureVars, loadPc, loadIndex, cycle, loaded, settings_store, favorites, response>>

detectVars == <<first_item, detected, detectState>>
exportVars == <<output_dir, args, removed_count, exit_code>>
callVars == <<call, returned>>
cliVars == <<detectVars, exportVars, callVars, connections>>

vars == <<chunkVars, parseVars, fileVars, mergeVars, serviceVars, cliVars>>

-----------------------------------------------------------------------------
(* Bounds of the model.                                                    *)

MaxParts == 3           \* parts of one Gemini chunk
MaxTime == 3            \* timestamps of an export are 0..MaxTime
MaxNodes == 3           \* nodes of one ChatGPT mapping
MaxLoads == 2           \* calls of ChatHistoryService.load
MaxRecur == 3           \* tokens of a text with citation markers
MaxQuery == 2           \* parameters of the query of a cited URL

-----------------------------------------------------------------------------
(* JSON values.                                                            *)

JNull == [t |-> "null"]
JStr(s) == [t |-> "str", v |-> s]     \* a string holding text: a sequence of characters
JId(s) == [t |-> "id", v |-> s]       \* a string holding an identifier: an atom
JNum(n) == [t |-> "num", v |-> n]
JBool(b) == [t |-> "bool", v |-> b]
JIso(n) == [t |-> "iso", v |-> n]     \* a string holding the ISO-8601 form of instant n
JList(s) == [t |-> "list", v |-> s]
JDict(d) == [t |-> "dict", v |-> d]

IsStr(x) == x.t = "str"
IsId(x) == x.t = "id"
IsNum(x) == x.t = "num"
IsList(x) == x.t = "list"
IsDict(x) == x.t = "dict"

Absent == [t |-> "absent"]      \* a path that is None or names no file

\* A structure of the service is the object that one call of load() (or the
\* constructor, as cycle 0) has created, with what it holds.
Structure(load_cycle, items) == [cycle |-> load_cycle, items |-> items]

\* ChatHistoryService.__init__: empty structures, nothing loaded.
Constructed ==
    /\ conversations = Structure(0, <<>>)
    /\ _conversation_map = Structure(0, <<>>)
    /\ _message_map = Structure(0, <<>>)
    /\ _asset_registry = Structure(0, <<>>)
    /\ loadPc = "idle" /\ loadIndex = 0 /\ cycle = 0 /\ loaded = "never"
    /\ settings_store = "None"
    /\ favorites = <<>>
    /\ response = [op |-> "none"]

\* The variables of a part of the program that a specification leaves out.
FilesIdle ==
    /\ export_files = [chatgpt |-> Absent, claude |-> Absent, gemini |-> Absent]
    /\ export_media = {}
MergeIdle == all_conversations = <<>> /\ mergeState = "idle"
ChunkIdle == chunk = JNull /\ blocks = <<>> /\ chunkState = "idle"
DetectIdle == first_item = JNull /\ detected = JNull /\ detectState = "idle"
ExportIdle ==
    /\ output_dir = [exists |-> FALSE, dirs |-> {}, files |-> <<>>]
    /\ args = JNull /\ removed_count = 0 /\ exit_code = JNull
CallIdle == call = JNull /\ returned = JNull
StoreIdle == connections = <<>>
CliIdle == DetectIdle /\ ExportIdle /\ CallIdle /\ StoreIdle
ParseIdle ==
    /\ provider = "none" /\ raw_conversations = JNull
    /\ parsed = <<>> /\ parseState = "idle"

\* Python truthiness: None, "", 0, False, [] and {} are falsy.
Truthy(x) ==
    CASE x.t = "null" -> FALSE
      [] x.t = "str" -> x.v # <<>>
      [] x.t = "id" -> x.v # ""
      [] x.t = "num" -> x.v # 0
      [] x.t = "bool" -> x.v
      [] x.t = "list" -> Len(x.v) > 0
      [] x.t = "dict" -> DOMAIN x.v # {}
      [] x.t = "iso" -> TRUE

\* dict.get(key): None when the key is absent.  Only applied to dicts.
Get(d, key) == IF key \in DOMAIN d.v THEN d.v[key] ELSE JNull

\* The items of a value when it is a list (`isinstance(x, list)`), else none.
ListItems(x) == IF IsList(x) THEN x.v ELSE <<>>

-----------------------------------------------------------------------------
(* Text: sequences of one-character strings.                               *)

Alpha == {"H", "e", "l", "o", "w", "r", "d", "a", "b"}
Whitespace == {" "}

isalpha(c) == c \in Alpha

RECURSIVE lstrip(_)
lstrip(s) == IF s # <<>> /\ Head(s) \in Whitespace THEN lstrip(Tail(s)) ELSE s

RECURSIVE rstrip(_)
rstrip(s) ==
    IF s # <<>> /\ s[Len(s)] \in Whitespace
    THEN rstrip(SubSeq(s, 1, Len(s) - 1))
    ELSE s

\* str.strip()
strip(s) == rstrip(lstrip(s))

\* string_or_none: a stripped non-empty string, or None (here: the empty text).
\* Every caller in _parse_gemini_chunk continues with `or ""`.
string_or_none(x) == IF IsStr(x) THEN strip(x.v) ELSE <<>>

\* separator.join(fragments)
RECURSIVE join(_, _)
join(sep, fragments) ==
    IF fragments = <<>> THEN <<>>
    ELSE IF Len(fragments) = 1 THEN fragments[1]
    ELSE fragments[1] \o sep \o join(sep, Tail(fragments))

SeqsUpTo(S, n) == UNION {[1..k -> S] : k \in 0..n}

\* x or y
Or(x, y) == IF Truthy(x) THEN x ELSE y

\* str.lower()
lower(s) == [i \in DOMAIN s |-> IF s[i] = "H" THEN "h" ELSE s[i]]

\* models.ContentBlock: `data` defaults to an empty dict.
ContentBlockWith(type, text, data) == [type |-> type, text |-> text, data |-> data]
ContentBlock(type, text) == ContentBlockWith(type, text, JDict(<<>>))

-----------------------------------------------------------------------------
(* _parse_gemini_chunk                                                     *)

\* The loop of _flush_text: fragments joined directly, with one space put
\* between a fragment ending in a letter and one starting with a letter.
RECURSIVE MergeFragments(_, _)
MergeFragments(merged, rest) ==
    IF rest = <<>> THEN merged
    ELSE LET fragment == Head(rest)
             spaced == IF merged # <<>> /\ fragment # <<>>
                          /\ isalpha(merged[Len(merged)]) /\ isalpha(fragment[1])
                       THEN merged \o <<" ">>
                       ELSE merged
         IN MergeFragments(spaced \o fragment, Tail(rest))

\* The accumulator state of the parts loop: (blocks, text_accum, thought_accum).
_flush_text(st) ==
    IF st.text_accum # <<>>
    THEN [st EXCEPT
            !.blocks = Append(@, ContentBlock("text",
                strip(MergeFragments(st.text_accum[1], Tail(st.text_accum))))),
            !.text_accum = <<>>]
    ELSE st

\* A flush that joins the thoughts with a single line break.
ThoughtsUnseparated(st) ==
    IF st.thought_accum # <<>>
    THEN [st EXCEPT
            !.blocks = Append(@, ContentBlock("thinking",
                join(<<"\n">>, st.thought_accum))),
            !.thought_accum = <<>>]
    ELSE st

_flush_thought(st) ==
    IF st.thought_accum # <<>>
    THEN [st EXCEPT
            !.blocks = Append(@, ContentBlock("thinking",
                join(<<"\n", "\n">>, st.thought_accum))),
            !.thought_accum = <<>>]
    ELSE st

_flush_all(st) == _flush_text(_flush_thought(st))

\* f"data:{mime};base64,{data_b64}" if data_b64 else None
DataUri(mime, data_b64) ==
    IF data_b64 # <<>> THEN JStr(<<"data:">> \o mime \o <<";base64,">> \o data_b64) ELSE JNull

\* The sidecar of an inline-media block: the mime type, the whole payload as
\* a data URI, and the field the payload came from.
InlineData(mime, data_b64, source) ==
    JDict([mime_type |-> JStr(mime), data_uri |-> DataUri(mime, data_b64),
           source |-> JId(source)])

\* _parse_gemini_inline_data: a block for image/* and audio/* payloads only.
_parse_gemini_inline_data(inline_data, source) ==
    LET mime == string_or_none(Get(inline_data, "mimeType"))
        data_b64 == string_or_none(Get(inline_data, "data"))
    IN IF mime # <<>> /\ Head(mime) = "image/"
       THEN <<ContentBlockWith("inline_image", <<"[Inline Image]">>,
                               InlineData(mime, data_b64, source))>>
       ELSE IF mime # <<>> /\ Head(mime) = "audio/"
       THEN <<ContentBlockWith("inline_audio", <<"[Inline Audio]">>,
                               InlineData(mime, data_b64, source))>>
       ELSE <<>>

\* One iteration of `for part in parts`.
GeminiPartStep(st, part) ==
    IF ~IsDict(part) THEN st
    ELSE
        LET part_text == string_or_none(Get(part, "text"))
            is_thought == Truthy(Get(part, "thought"))
            st1 == IF is_thought /\ strip(part_text) # <<>>
                   THEN [_flush_text(st) EXCEPT !.thought_accum = Append(@, strip(part_text))]
                   ELSE IF strip(part_text) # <<>>
                   THEN [_flush_thought(st) EXCEPT !.text_accum = Append(@, part_text)]
                   ELSE st
            inline_data == Get(part, "inlineData")
        IN IF IsDict(inline_data)
           THEN [_flush_all(st1) EXCEPT
                    !.blocks = _flush_all(st1).blocks \o _parse_gemini_inline_data(inline_data, "part_inlineData")]
           ELSE st1

RECURSIVE GeminiPartsLoop(_, _)
GeminiPartsLoop(st, parts) ==
    IF parts = <<>> THEN st
    ELSE GeminiPartsLoop(GeminiPartStep(st, Head(parts)), Tail(parts))

\* Chunk-level inlineImage / inlineAudio: a block with the data URI of the
\* payload, under the default mime type when the field names none.
ChunkInlineBlock(raw_chunk, key, default_mime, type, text) ==
    LET inline == Get(raw_chunk, key)
        mime == IF string_or_none(Get(inline, "mimeType")) # <<>>
                THEN string_or_none(Get(inline, "mimeType"))
                ELSE <<default_mime>>
    IN IF IsDict(inline)
       THEN <<ContentBlockWith(type, <<text>>,
                               InlineData(mime, string_or_none(Get(inline, "data")), key))>>
       ELSE <<>>

\* Chunk-level driveImage / driveAudio: a descriptor with the remote id.
ChunkDriveBlock(raw_chunk, key, text, kind) ==
    IF IsDict(Get(raw_chunk, key))
    THEN <<ContentBlockWith("drive_document", <<text>>,
                            JDict([id |-> JStr(string_or_none(Get(Get(raw_chunk, key), "id"))),
                                   kind |-> JId(kind)]))>>
    ELSE <<>>

\* {k: v for k, v in d.items() if isinstance(v, (str, int, float, bool))}
Scalars(d) ==
    JDict([k \in {j \in DOMAIN d.v : d.v[j].t \in {"str", "id", "iso", "num", "bool"}} |-> d.v[k]])

\* driveDocument / driveVideo: the name after the label (the label again when
\* there is no name), and every scalar field of the reference as the sidecar.
ChunkDriveFileBlock(raw_chunk, key, type, label) ==
    LET drive == Get(raw_chunk, key)
        name == IF string_or_none(Get(drive, "name")) # <<>>
                THEN string_or_none(Get(drive, "name"))
                ELSE <<label>>
    IN IF IsDict(drive)
       THEN <<ContentBlockWith(type, <<label, " ">> \o name, Scalars(drive))>>
       ELSE <<>>

\* _parse_gemini_grounding: one block listing the citation lines, none without any.
_parse_gemini_grounding(grounding) ==
    IF IsList(Get(grounding, "webSearchQueries")) /\ Len(Get(grounding, "webSearchQueries").v) > 0
    THEN <<ContentBlock("grounding", <<"Search: ">>)>>
    ELSE <<>>

\* A parser that has no fallback to the chunk-level text.
NoTopLevelFallback(from_parts, top_text) == from_parts

\* `if not blocks:` after the parts: the chunk-level text, when it is not
\* blank, becomes the one block.
TopLevelFallback(from_parts, top_text) ==
    IF from_parts = <<>> /\ top_text # <<>>
    THEN <<ContentBlock("text", strip(top_text))>>
    ELSE from_parts

_parse_gemini_chunk(raw_chunk) ==
    LET parts == Get(raw_chunk, "parts")
        empty == [blocks |-> <<>>, text_accum |-> <<>>, thought_accum |-> <<>>]
        from_parts == IF IsList(parts)
                      THEN _flush_all(GeminiPartsLoop(empty, parts.v)).blocks
                      ELSE <<>>
        top_text == string_or_none(Get(raw_chunk, "text"))
        with_fallback == TopLevelFallback(from_parts, top_text)
        inline_data_top == Get(raw_chunk, "inlineData")
        grounding == Get(raw_chunk, "grounding")
    IN with_fallback
       \o ChunkInlineBlock(raw_chunk, "inlineImage", "image/png", "inline_image", "[Generated Image]")
       \o ChunkInlineBlock(raw_chunk, "inlineAudio", "audio/wav", "inline_audio", "[Audio Input]")
       \o (IF IsDict(inline_data_top)
           THEN _parse_gemini_inline_data(inline_data_top, "chunk_inlineData")
           ELSE <<>>)
       \o ChunkDriveBlock(raw_chunk, "driveImage", "[Drive Image]", "image")
       \o ChunkDriveBlock(raw_chunk, "driveAudio", "[Drive Audio]", "audio")
       \o ChunkDriveFileBlock(raw_chunk, "driveDocument", "drive_document", "[Drive Document]")
       \o ChunkDriveFileBlock(raw_chunk, "driveVideo", "drive_video", "[Drive Video]")
       \o (IF IsDict(grounding) THEN _parse_gemini_grounding(grounding) ELSE <<>>)

-----------------------------------------------------------------------------
(* Timestamps.                                                             *)

\* utc_now(): the clock reading at parse time, later than every timestamp of
\* the export.
utc_now == MaxTime + 1

NoFallback == -1

\* _parse_unix_datetime: a number is taken as it is (bool is an int in Python);
\* a string that float() rejects, or any other value, yields the fallback, and
\* the clock when there is none.
_parse_unix_datetime(raw_value, fallback) ==
    IF IsNum(raw_value) THEN raw_value.v
    ELSE IF raw_value.t = "bool" THEN (IF raw_value.v THEN 1 ELSE 0)
    ELSE IF fallback # NoFallback THEN fallback
    ELSE utc_now

Min(a, b) == IF a <= b THEN a ELSE b
Max(a, b) == IF a >= b THEN a ELSE b

-----------------------------------------------------------------------------
(* _extract_text and the ChatGPT content parser.                           *)

\* The keys of export dicts in the order in which the export writes them.
KeyOrder == <<"id", "content_type", "language", "text", "parts", "thoughts",
              "content", "summary", "result", "message", "title", "name", "url",
              "finished_text", "initial_text", "asset_pointer">>

skipped_keys == {"content_type", "type", "role", "status", "recipient", "channel"}
priority_keys == <<"text", "thinking", "summary", "message", "title", "name",
                   "content", "url", "snippet", "domain">>
ExtractMaxDepth == 5
ExtractMaxItems == 12
ExtractMaxKeys == 16

Range(f) == {f[i] : i \in DOMAIN f}

RECURSIVE SelectSeq2(_, _)
\* [x for x in s if x in S]
SelectSeq2(s, S) ==
    IF s = <<>> THEN <<>>
    ELSE IF Head(s) \in S THEN <<Head(s)>> \o SelectSeq2(Tail(s), S)
    ELSE SelectSeq2(Tail(s), S)

Take(s, n) == SubSeq(s, 1, Min(Len(s), n))

NonEmpty(texts) == SelectSeq(texts, LAMBDA x : x # <<>>)

\* str(value) of a number or a boolean: a text of one non-blank token.
NumberText(x) == IF x.t = "bool" THEN <<"True">> ELSE <<"9">>

\* A flattening without bounds: every item, every key, at any depth.
RECURSIVE ExtractEverything(_, _)
ExtractEverything(value, depth) ==
    IF value.t = "null" THEN <<>>
    ELSE IF IsStr(value) THEN strip(value.v)
    ELSE IF IsId(value) THEN (IF value.v \in {"", " "} THEN <<>> ELSE <<value.v>>)
    ELSE IF value.t = "iso" THEN <<"date">>
    ELSE IF value.t \in {"num", "bool"} THEN NumberText(value)
    ELSE IF IsList(value) THEN
        strip(join(<<"\n">>, NonEmpty([i \in DOMAIN value.v |->
                                          ExtractEverything(value.v[i], depth + 1)])))
    ELSE
        LET keys == SelectSeq2(KeyOrder, DOMAIN value.v)
        IN strip(join(<<"\n">>, NonEmpty([i \in DOMAIN keys |->
                                             ExtractEverything(Get(value, keys[i]), depth + 1)])))

RECURSIVE _extract_text(_, _)
_extract_text(value, depth) ==
    IF depth > ExtractMaxDepth \/ value.t = "null" THEN <<>>
    ELSE IF IsStr(value) THEN strip(value.v)
    ELSE IF IsId(value) THEN (IF value.v \in {"", " "} THEN <<>> ELSE <<value.v>>)
    ELSE IF value.t = "iso" THEN <<"date">>
    ELSE IF value.t \in {"num", "bool"} THEN NumberText(value)
    ELSE IF IsList(value) THEN
        LET items == Take(value.v, ExtractMaxItems)
            parts == [i \in DOMAIN items |-> _extract_text(items[i], depth + 1)]
        IN strip(join(<<"\n">>, NonEmpty(parts)))
    ELSE
        LET own == SelectSeq2(KeyOrder, DOMAIN value.v \ Range(priority_keys))
            ordered_keys == Take(priority_keys \o own, ExtractMaxKeys)
            kept == SelectSeq(ordered_keys, LAMBDA k : k \notin skipped_keys)
            parts == [i \in DOMAIN kept |-> _extract_text(Get(value, kept[i]), depth + 1)]
        IN strip(join(<<"\n">>, NonEmpty(parts)))

\* _lightweight_metadata: the content-bearing keys are left out, numbers and
\* booleans are kept, a string is kept when short, and cut to the long limit
\* under an allow-listed key.
preserve_long_text_keys ==
    {"asset_pointer", "audio_asset_pointer", "video_container_asset_pointer", "url",
     "ref_id", "file_name", "file_type", "tool_use_id", "command", "name", "id"}
ContentKeys == {"text", "thinking", "parts", "content", "thoughts"}
LongTextLimit == 2000
ShortTextLimit == 200

StrLen(x) == IF IsStr(x) THEN Len(x.v) ELSE 1
Truncate(x, n) == IF IsStr(x) THEN JStr(Take(x.v, n)) ELSE x

\* A copy of the payload that bounds nothing.
KeepsEveryValue(payload) == payload

_lightweight_metadata(payload) ==
    LET kept == {k \in DOMAIN payload.v \ ContentKeys :
                    \/ payload.v[k].t \in {"num", "bool"}
                    \/ /\ payload.v[k].t \in {"str", "id", "iso"}
                       /\ (k \in preserve_long_text_keys \/ StrLen(payload.v[k]) <= ShortTextLimit)}
    IN JDict([k \in kept |->
                IF k \in preserve_long_text_keys
                THEN Truncate(payload.v[k], LongTextLimit)
                ELSE payload.v[k]])

\* d[key] = value, and {**a, **b}
DictSet(d, key, value) ==
    JDict([k \in DOMAIN d.v \cup {key} |-> IF k = key THEN value ELSE d.v[k]])
DictMerge(a, b) ==
    JDict([k \in DOMAIN a.v \cup DOMAIN b.v |-> IF k \in DOMAIN b.v THEN b.v[k] ELSE a.v[k]])

\* a or b, on texts
OrText(a, b) == IF a # <<>> THEN a ELSE b

\* str(dict.get(key, default)) of a key holding an identifier.
StrOf(x, default) == IF x.t = "null" THEN default ELSE IF IsId(x) THEN x.v ELSE "repr"

CHATGPT_ASSET_KIND_BY_PART_TYPE ==
    [image_asset_pointer |-> "image",
     audio_asset_pointer |-> "audio",
     real_time_user_audio_video_asset_pointer |-> "audio"]

\* raw_value.replace("_", " ").strip().capitalize(), for the identifiers that
\* exports use as content and part types.
_humanize_identifier(raw_value) ==
    CASE raw_value = "text" -> "Text"
      [] raw_value = "code" -> "Code"
      [] raw_value = "unknown" -> "Unknown"
      [] raw_value = "thoughts" -> "Thoughts"
      [] raw_value = "multimodal_text" -> "Multimodal text"
      [] raw_value = "execution_output" -> "Execution output"
      [] raw_value = "image_asset_pointer" -> "Image asset pointer"
      [] raw_value = "audio_asset_pointer" -> "Audio asset pointer"
      [] raw_value = "audio_transcription" -> "Audio transcription"
      [] raw_value = "thinking" -> "Thinking"
      [] raw_value = "tool_use" -> "Tool use"
      [] OTHER -> "Other"

\* f"[{_humanize_identifier(part_type)}]": the name between brackets.
Placeholder(type) == <<"[", _humanize_identifier(type), "]">>

_chatgpt_asset_placeholder(part_type) ==
    IF part_type \notin DOMAIN CHATGPT_ASSET_KIND_BY_PART_TYPE THEN Placeholder(part_type)
    ELSE IF CHATGPT_ASSET_KIND_BY_PART_TYPE[part_type] = "image" THEN <<"[Image]">>
    ELSE <<"[Audio]">>

_extract_chatgpt_asset_pointer(part) ==
    IF IsId(Get(part, "asset_pointer")) /\ Truthy(Get(part, "asset_pointer"))
    THEN Get(part, "asset_pointer")
    ELSE IF IsId(Get(part, "id")) /\ Truthy(Get(part, "id")) THEN Get(part, "id")
    ELSE JNull

\* Asset metadata that marks every asset as resolved from the start.
MetadataResolved(part_type, part) ==
    IF part_type \notin DOMAIN CHATGPT_ASSET_KIND_BY_PART_TYPE THEN JNull
    ELSE JDict([asset_id |-> JNull,
                kind |-> JId(CHATGPT_ASSET_KIND_BY_PART_TYPE[part_type]),
                source_pointer |-> _extract_chatgpt_asset_pointer(part),
                is_resolved |-> JBool(TRUE),
                asset_url |-> JNull])

_build_chatgpt_asset_metadata(part_type, part) ==
    IF part_type \notin DOMAIN CHATGPT_ASSET_KIND_BY_PART_TYPE THEN JNull
    ELSE JDict([asset_id |-> JNull,
                kind |-> JId(CHATGPT_ASSET_KIND_BY_PART_TYPE[part_type]),
                source_pointer |-> _extract_chatgpt_asset_pointer(part),
                is_resolved |-> JBool(FALSE),
                asset_url |-> JNull])

_parse_chatgpt_part(content_type, part) ==
    IF IsStr(part) THEN
        (IF strip(part.v) # <<>> THEN <<ContentBlock(content_type, strip(part.v))>> ELSE <<>>)
    ELSE IF ~IsDict(part) THEN <<>>
    ELSE
        LET part_type == StrOf(Get(part, "content_type"), "object")
            text == OrText(_extract_text(Get(part, "text"), 0),
                           OrText(_extract_text(Get(part, "message"), 0),
                                  _extract_text(Get(part, "title"), 0)))
            asset_metadata == _build_chatgpt_asset_metadata(part_type, part)
            metadata == IF Truthy(asset_metadata)
                        THEN DictSet(_lightweight_metadata(part), "asset", asset_metadata)
                        ELSE _lightweight_metadata(part)
        IN <<ContentBlockWith(part_type,
                              OrText(text, _chatgpt_asset_placeholder(part_type)),
                              metadata)>>

\* A citation marker is one token of a text.  CITATION_MARKER_RE matches each.
CitationMarker == "cite"
CitationMarkers == {CitationMarker, "cite_turn1", "cite_turn2"}

\* A string that holds a URL, as its parts: [scheme, netloc, path, query,
\* fragment], the query a sequence of [key, value] as they are written.
JUrl(u) == [t |-> "url", v |-> u]
\* A string that holds markdown text with links to these URLs, such as `alt`.
JMarkdown(urls) == [t |-> "markdown", v |-> urls]

\* urllib's quote_plus and unquote_plus on the values that occur in queries.
Quote(value) == IF value = "a/b" THEN "a%2Fb" ELSE value
Unquote(value) == IF value = "a%2Fb" THEN "a/b" ELSE value

Http(u) == u.scheme \in {"http", "https"}

\* key.lower().startswith("utm_")
IsTracking(key) == key \in {"utm_source", "utm_medium", "UTM_Source"}

\* The text of a URL (urlunsplit): scheme, netloc, path, then the query and
\* the fragment when there is one.
PairText(pair) == pair.key \o "=" \o pair.value
RECURSIVE QueryText(_)
QueryText(query) ==
    IF query = <<>> THEN <<>>
    ELSE IF Len(query) = 1 THEN <<PairText(query[1])>>
    ELSE <<PairText(query[1]), "&">> \o QueryText(Tail(query))
UrlText(u) ==
    <<u.scheme \o "://", u.netloc, u.path>>
    \o (IF u.query # <<>> THEN <<"?">> \o QueryText(u.query) ELSE <<>>)
    \o (IF u.fragment # "" THEN <<"#" \o u.fragment>> ELSE <<>>)

\* _normalize_reference_url: the query of an http(s) URL is parsed
\* (parse_qsl), filtered and written again (urlencode); any other URL is kept.
_normalize_reference_url(u) ==
    IF ~Http(u) THEN u
    ELSE LET parsed_query == [i \in DOMAIN u.query |->
                                [key |-> Unquote(u.query[i].key),
                                 value |-> Unquote(u.query[i].value)]]
             filtered_query == SelectSeq(parsed_query, LAMBDA pair : ~IsTracking(pair.key))
         IN [u EXCEPT !.query = [i \in DOMAIN filtered_query |->
                                    [key |-> Quote(filtered_query[i].key),
                                     value |-> Quote(filtered_query[i].value)]]]

\* _extract_reference_urls: the http(s) links of `alt`, the strings of
\* `safe_urls`, and the `url` of each object of `items`.
UrlsOf(values) ==
    LET urls == SelectSeq(values, LAMBDA x : x.t = "url")
    IN [i \in DOMAIN urls |-> urls[i].v]
ItemUrls(items) ==
    UrlsOf([i \in DOMAIN items |-> IF IsDict(items[i]) THEN Get(items[i], "url") ELSE JNull])
_extract_reference_urls(reference) ==
    (IF Get(reference, "alt").t = "markdown"
     THEN SelectSeq(Get(reference, "alt").v, Http) ELSE <<>>)
    \o UrlsOf(ListItems(Get(reference, "safe_urls")))
    \o ItemUrls(ListItems(Get(reference, "items")))

\* _reference_label: netloc, or netloc and path; the URL itself when not http(s).
_reference_label(u) ==
    IF ~Http(u) THEN UrlText(u)
    ELSE IF u.path \in {"", "/"} THEN <<u.netloc>>
    ELSE <<u.netloc \o u.path>>

\* The normalized URLs of the references, each once, in order.
RECURSIVE DedupedUrls(_, _)
DedupedUrls(urls, deduped_urls) ==
    IF urls = <<>> THEN deduped_urls
    ELSE LET normalized == _normalize_reference_url(Head(urls))
         IN IF normalized \in Range(deduped_urls)
            THEN DedupedUrls(Tail(urls), deduped_urls)
            ELSE DedupedUrls(Tail(urls), Append(deduped_urls, normalized))

RECURSIVE Flatten(_)
Flatten(seqs) == IF seqs = <<>> THEN <<>> ELSE Head(seqs) \o Flatten(Tail(seqs))

\* _render_content_reference_links: "([label](url) · [label](url))", or "".
_render_content_reference_links(references) ==
    LET deduped_urls ==
            DedupedUrls(Flatten([i \in DOMAIN references |->
                                    _extract_reference_urls(references[i])]), <<>>)
        links == [i \in DOMAIN deduped_urls |->
                    <<"[">> \o _reference_label(deduped_urls[i]) \o <<"](">>
                    \o UrlText(deduped_urls[i]) \o <<")">>]
    IN IF deduped_urls = <<>> THEN <<>>
       ELSE <<"(">> \o join(<<" · ">>, links) \o <<")">>

\* str.replace(old, new): every occurrence, left to right, none overlapping.
StartsWith(text, old) == Len(old) <= Len(text) /\ SubSeq(text, 1, Len(old)) = old
RECURSIVE Replace(_, _, _)
Replace(text, old, new) ==
    IF text = <<>> THEN <<>>
    ELSE IF StartsWith(text, old)
    THEN new \o Replace(SubSeq(text, Len(old) + 1, Len(text)), old, new)
    ELSE <<Head(text)>> \o Replace(Tail(text), old, new)

\* len(matched_text): a marker is longer than any other token.
TokenLen(c) == IF c \in CitationMarkers THEN 16 ELSE 4
RECURSIVE CharLen(_)
CharLen(text) == IF text = <<>> THEN 0 ELSE TokenLen(Head(text)) + CharLen(Tail(text))

\* The matched texts that have a replacement, in the order of their first
\* reference (the insertion order of the dict).
RECURSIVE MatchedTexts(_, _)
MatchedTexts(references, matched) ==
    IF references = <<>> THEN matched
    ELSE LET reference == Head(references)
             usable == /\ IsDict(reference)
                       /\ IsStr(Get(reference, "matched_text"))
                       /\ Get(reference, "matched_text").v # <<>>
                       /\ Get(reference, "matched_text").v \notin Range(matched)
         IN MatchedTexts(Tail(references),
                         IF usable THEN Append(matched, Get(reference, "matched_text").v)
                         ELSE matched)
GroupedReferences(references, matched_text) ==
    SelectSeq(references,
              LAMBDA r : IsDict(r) /\ Get(r, "matched_text") = JStr(matched_text))

\* sorted(..., key=len, reverse=True): stable, longest first.
RECURSIVE InsertByLength(_, _)
InsertByLength(sorted, matched_text) ==
    IF sorted = <<>> THEN <<matched_text>>
    ELSE IF CharLen(sorted[Len(sorted)]) >= CharLen(matched_text)
    THEN Append(sorted, matched_text)
    ELSE Append(InsertByLength(SubSeq(sorted, 1, Len(sorted) - 1), matched_text),
                sorted[Len(sorted)])
RECURSIVE SortByLength(_, _)
SortByLength(matched, sorted) ==
    IF matched = <<>> THEN sorted
    ELSE SortByLength(Tail(matched), InsertByLength(sorted, Head(matched)))

\* The loop of replacements over the sorted matched texts.
RECURSIVE ReplaceAll(_, _, _)
ReplaceAll(rendered, matched, references) ==
    IF matched = <<>> THEN rendered
    ELSE LET replacement ==
                _render_content_reference_links(GroupedReferences(references, Head(matched)))
         IN ReplaceAll(IF replacement # <<>>
                       THEN Replace(rendered, Head(matched), replacement)
                       ELSE rendered,
                       Tail(matched), references)

\* CITATION_MARKER_RE.sub("", text): every citation marker is removed.
StripMarkers(text) == SelectSeq(text, LAMBDA c : c \notin CitationMarkers)

_apply_chatgpt_content_references(text, message_metadata) ==
    IF text = <<>> THEN text
    ELSE IF ~IsDict(message_metadata) THEN StripMarkers(text)
    ELSE LET references == ListItems(Get(message_metadata, "content_references"))
         IN StripMarkers(ReplaceAll(text, SortByLength(MatchedTexts(references, <<>>), <<>>),
                                    references))

\* " ".join(value.split()).strip(): runs of blanks become one blank.
RECURSIVE SquashBlanks(_)
SquashBlanks(s) ==
    IF Len(s) < 2 THEN s
    ELSE IF s[1] \in Whitespace \cup {"\n"} /\ s[2] \in Whitespace \cup {"\n"}
    THEN SquashBlanks(Tail(s))
    ELSE <<IF s[1] = "\n" THEN " " ELSE s[1]>> \o SquashBlanks(Tail(s))

_normalize_text_for_dedupe(value) == SquashBlanks(strip(value))

\* A key that leaves the source pointer out.
KeyWithoutPointer(block, rendered_text) ==
    <<block.type, _normalize_text_for_dedupe(rendered_text)>>

_chatgpt_block_dedupe_key(block, rendered_text) ==
    LET asset_payload == Get(block.data, "asset")
        asset_source == IF IsDict(asset_payload) THEN Get(asset_payload, "source_pointer")
                        ELSE JNull
        source_pointer == IF IsId(asset_source) /\ Truthy(asset_source) THEN asset_source
                          ELSE IF IsId(Get(block.data, "asset_pointer"))
                          THEN Get(block.data, "asset_pointer")
                          ELSE JNull
    IN IF Truthy(source_pointer)
       THEN <<block.type, _normalize_text_for_dedupe(rendered_text), source_pointer.v>>
       ELSE <<block.type, _normalize_text_for_dedupe(rendered_text)>>

\* The closing loop of _parse_chatgpt_content: citation rewriting, dropping of
\* blocks left empty, and de-duplication by key.
RECURSIVE Deduplicate(_, _, _, _)
Deduplicate(bs, seen, deduplicated, message_metadata) ==
    IF bs = <<>> THEN deduplicated
    ELSE
        LET block == Head(bs)
            rendered_text == strip(_apply_chatgpt_content_references(block.text, message_metadata))
            key == _chatgpt_block_dedupe_key(block, rendered_text)
        IN IF rendered_text = <<>> \/ key \in seen
           THEN Deduplicate(Tail(bs), seen, deduplicated, message_metadata)
           ELSE Deduplicate(Tail(bs), seen \cup {key},
                            Append(deduplicated,
                                   ContentBlockWith(block.type, rendered_text, block.data)),
                            message_metadata)

RECURSIVE PartsBlocks(_, _)
PartsBlocks(content_type, parts) ==
    IF parts = <<>> THEN <<>>
    ELSE _parse_chatgpt_part(content_type, Head(parts)) \o PartsBlocks(content_type, Tail(parts))

\* A parser that appends the block whether or not it found a text.
OneBlockAlways(type, text) == <<ContentBlock(type, text)>>

OneBlock(type, text) == IF text # <<>> THEN <<ContentBlock(type, text)>> ELSE <<>>
OneBlockWith(type, text, data) ==
    IF text # <<>> THEN <<ContentBlockWith(type, text, data)>> ELSE <<>>

\* message_metadata is a dict, or None when the raw metadata is no dict.
_parse_chatgpt_content(content, message_metadata) ==
    IF ~IsDict(content) THEN <<>>
    ELSE
        LET content_type == StrOf(Get(content, "content_type"), "unknown")
            typed ==
                IF content_type = "thoughts"
                THEN OneBlock("thoughts", _extract_text(Get(content, "thoughts"), 0))
                ELSE IF content_type = "reasoning_recap"
                THEN OneBlock("reasoning_recap", _extract_text(Get(content, "content"), 0))
                ELSE IF content_type = "tether_browsing_display"
                THEN OneBlock("tether_browsing_display",
                              OrText(_extract_text(Get(content, "summary"), 0),
                                     _extract_text(Get(content, "result"), 0)))
                ELSE OneBlockWith(content_type, _extract_text(Get(content, "text"), 0),
                                  _lightweight_metadata(content))
                     \o (IF IsList(Get(content, "parts"))
                         THEN PartsBlocks(content_type, Get(content, "parts").v)
                         ELSE <<>>)
            metadata == IF IsDict(message_metadata) THEN message_metadata ELSE JDict(<<>>)
            with_code ==
                IF content_type = "code" /\ typed = <<>>
                THEN OneBlockWith("code",
                                  OrText(_extract_text(Get(metadata, "finished_text"), 0),
                                         _extract_text(Get(metadata, "initial_text"), 0)),
                                  _lightweight_metadata(DictMerge(metadata, content)))
                ELSE typed
            fallback_text == _extract_text(content, 0)
            echo == fallback_text # <<>> /\ lower(strip(fallback_text)) = lower(<<content_type>>)
        IN IF with_code # <<>> THEN Deduplicate(with_code, {}, <<>>, message_metadata)
           ELSE IF content_type = "text" /\ (fallback_text = <<>> \/ echo) THEN <<>>
           ELSE Deduplicate(
                    <<ContentBlockWith(content_type,
                                       IF echo \/ fallback_text = <<>>
                                       THEN Placeholder(content_type) ELSE fallback_text,
                                       _lightweight_metadata(content))>>,
                    {}, <<>>, message_metadata)

-----------------------------------------------------------------------------
(* _build_active_branch_path                                               *)

NodeNames == <<"n1", "n2", "n3", "n4", "n5", "n6">>
NodeIds == {NodeNames[i] : i \in 1..MaxNodes}
NodeRank(id) == CHOOSE i \in DOMAIN NodeNames : NodeNames[i] = id

\* The path as the loop collected it, from current_node towards the root.
PathNotReversed(s) == s

\* path.reverse()
Reverse(s) == [i \in DOMAIN s |-> s[Len(s) + 1 - i]]

Unhashable(x) == x.t \in {"list", "dict"}

\* The while loop: [raised, path], the path from current_node towards the root.
RECURSIVE WalkParents(_, _, _, _)
WalkParents(mapping, cursor, path, seen) ==
    IF ~Truthy(cursor) THEN [raised |-> FALSE, path |-> path]
    ELSE IF Unhashable(cursor) THEN [raised |-> TRUE, path |-> path]
    ELSE IF ~IsId(cursor) \/ cursor.v \notin DOMAIN mapping.v \/ cursor.v \in seen
    THEN [raised |-> FALSE, path |-> path]
    ELSE IF ~IsDict(mapping.v[cursor.v]) THEN [raised |-> TRUE, path |-> path]
    ELSE WalkParents(mapping, Get(mapping.v[cursor.v], "parent"),
                     Append(path, cursor.v), seen \cup {cursor.v})

\* list.sort() of (create_time, node_id) tuples
TupleLess(a, b) == a[1] < b[1] \/ (a[1] = b[1] /\ NodeRank(a[2]) < NodeRank(b[2]))

RECURSIVE SortTuples(_)
SortTuples(S) ==
    IF S = {} THEN <<>>
    ELSE LET least == CHOOSE x \in S : \A y \in S \ {x} : TupleLess(x, y)
         IN <<least>> \o SortTuples(S \ {least})

\* [raised, path]: raised when the call ends in an AttributeError or TypeError.
_build_active_branch_path(mapping, current_node) ==
    IF ~Truthy(mapping) THEN [raised |-> FALSE, path |-> <<>>]
    ELSE IF Truthy(current_node) /\ Unhashable(current_node)
    THEN [raised |-> TRUE, path |-> <<>>]
    ELSE IF Truthy(current_node) /\ IsId(current_node) /\ current_node.v \in DOMAIN mapping.v
    THEN LET walked == WalkParents(mapping, current_node, <<>>, {})
         IN [raised |-> walked.raised, path |-> Reverse(walked.path)]
    ELSE IF \E n \in DOMAIN mapping.v : ~IsDict(mapping.v[n])
    THEN [raised |-> TRUE, path |-> <<>>]
    ELSE
        LET timed == {n \in DOMAIN mapping.v :
                        /\ IsDict(Get(mapping.v[n], "message"))
                        /\ Get(Get(mapping.v[n], "message"), "create_time").t \in {"num", "bool"}}
            sortable_nodes ==
                {<<_parse_unix_datetime(Get(Get(mapping.v[n], "message"), "create_time"), 0), n>> :
                    n \in timed}
            sorted == SortTuples(sortable_nodes)
        IN [raised |-> FALSE, path |-> [i \in DOMAIN sorted |-> sorted[i][2]]]

-----------------------------------------------------------------------------
(* parse_chatgpt_export                                                    *)

\* str(x).strip() of an identifier
StripId(v) == IF v \in {"", " "} THEN "" ELSE v

MessageRecord(id, provider_tag, role, created, updated, model, content) ==
    [id |-> id, provider |-> provider_tag, role |-> role, created |-> created,
     updated |-> updated, model |-> model, content |-> content]

ConversationRecord(id, provider_tag, title, created, updated, messages) ==
    [id |-> id, provider |-> provider_tag, title |-> title, created |-> created,
     updated |-> updated, messages |-> messages]

\* A parser that appends the message whether or not it has a content block.
EmitAlways(id, provider_tag, role, created, updated, model, content_blocks) ==
    [status |-> "ok",
     message |-> MessageRecord(id, provider_tag, role, created, updated, model,
                               content_blocks)]

\* messages.append(Message(...)) unless the message has no content block
\* (`if not content_blocks: continue`): [status, message].
EmitMessage(id, provider_tag, role, created, updated, model, content_blocks) ==
    IF content_blocks = <<>> THEN [status |-> "skip"]
    ELSE [status |-> "ok",
          message |-> MessageRecord(id, provider_tag, role, created, updated, model,
                                    content_blocks)]

\* A parser that keeps the messages flagged as hidden.
HiddenFlagIgnored(metadata) == FALSE

\* metadata.get("is_visually_hidden_from_conversation")
IsVisuallyHidden(metadata) == Truthy(Get(metadata, "is_visually_hidden_from_conversation"))

\* The message of a node whose message, author and metadata are dicts.
ChatgptNodeMessage(raw_message, node_id, author, metadata, message_created, default_model) ==
    IF IsVisuallyHidden(metadata)
    THEN [status |-> "skip"]
    ELSE EmitMessage(StrOf(Or(Get(raw_message, "id"), JId(node_id)), ""), "chatgpt",
                     StrOf(Or(Get(author, "role"), JId("unknown")), ""),
                     message_created,
                     _parse_unix_datetime(Get(raw_message, "update_time"), message_created),
                     Or(Get(metadata, "model_slug"), default_model),
                     _parse_chatgpt_content(Get(raw_message, "content"), metadata))

\* author.get and metadata.get raise AttributeError on a value that is no dict.
ChatgptRawMessage(raw_message, node_id, created, default_model) ==
    IF ~IsDict(raw_message) THEN [status |-> "skip"]
    ELSE IF ~IsDict(Or(Get(raw_message, "author"), JDict(<<>>))) THEN [status |-> "raise"]
    ELSE IF ~IsDict(Or(Get(raw_message, "metadata"), JDict(<<>>))) THEN [status |-> "raise"]
    ELSE ChatgptNodeMessage(raw_message, node_id,
                            Or(Get(raw_message, "author"), JDict(<<>>)),
                            Or(Get(raw_message, "metadata"), JDict(<<>>)),
                            _parse_unix_datetime(Get(raw_message, "create_time"), created),
                            default_model)

\* The body of `for node_id in node_ids`: [status, message] with status
\* "raise" (AttributeError), "skip" (continue) or "ok" (a message is appended).
ChatgptNode(node, node_id, created, default_model) ==
    IF ~IsDict(node) THEN [status |-> "raise"]
    ELSE ChatgptRawMessage(Get(node, "message"), node_id, created, default_model)

ChatgptMessage(mapping, node_id, created, default_model) ==
    ChatgptNode(Or(Get(mapping, node_id), JDict(<<>>)), node_id, created, default_model)

\* The outcome of a loop from the outcomes of its iterations: the first
\* exception ends it, otherwise it holds what the iterations appended.
LoopRaised(results) == \E i \in DOMAIN results : results[i].status = "raise"
LoopAppended(results) == SelectSeq(results, LAMBDA r : r.status = "ok")
MessagesOf(appended) == [i \in DOMAIN appended |-> appended[i].message]
LoopMessages(results) ==
    [raised |-> LoopRaised(results), messages |-> MessagesOf(LoopAppended(results))]

ChatgptMessages(mapping, node_ids, created, default_model) ==
    LoopMessages([i \in DOMAIN node_ids |->
                    ChatgptMessage(mapping, node_ids[i], created, default_model)])

\* The bounds of a conversation after its messages are known (lines 544-546).
ChatgptTighten(created, updated, messages) ==
    IF messages # <<>>
    THEN [created |-> Min(created, messages[1].created),
          updated |-> Max(updated, messages[Len(messages)].created)]
    ELSE [created |-> created, updated |-> updated]

\* conversations.append(Conversation(...)) with the tightened bounds.
EmitConversation(id, provider_tag, title, bounds, messages) ==
    [status |-> "ok",
     conversation |-> ConversationRecord(id, provider_tag, title, bounds.created,
                                         bounds.updated, messages)]

ChatgptBuilt(conversation_id, title, created, updated, built) ==
    IF built.raised THEN [status |-> "raise"]
    ELSE EmitConversation(conversation_id, "chatgpt", title,
                          ChatgptTighten(created, updated, built.messages), built.messages)

ChatgptBranch(conversation_id, title, created, updated, default_model, mapping, branch) ==
    IF branch.raised THEN [status |-> "raise"]
    ELSE ChatgptBuilt(conversation_id, title, created, updated,
                      ChatgptMessages(mapping, branch.path, created, default_model))

ChatgptMapped(raw_conversation, conversation_id, created, mapping) ==
    ChatgptBranch(conversation_id,
                  StrOf(Or(Get(raw_conversation, "title"), JId("[Untitled]")), ""),
                  created,
                  _parse_unix_datetime(Get(raw_conversation, "update_time"), created),
                  Get(raw_conversation, "default_model_slug"),
                  mapping,
                  _build_active_branch_path(mapping, Get(raw_conversation, "current_node")))

ChatgptIdentified(raw_conversation, conversation_id, raw_mapping) ==
    IF conversation_id = "" THEN [status |-> "skip"]
    ELSE ChatgptMapped(raw_conversation, conversation_id,
                       _parse_unix_datetime(Get(raw_conversation, "create_time"), NoFallback),
                       IF IsDict(raw_mapping) THEN raw_mapping ELSE JDict(<<>>))

\* The body of `for raw_conversation in raw_conversations`.
ChatgptConversation(raw_conversation) ==
    IF ~IsDict(raw_conversation) THEN [status |-> "skip"]
    ELSE ChatgptIdentified(raw_conversation,
                           StripId(StrOf(Or(Or(Get(raw_conversation, "id"),
                                               Get(raw_conversation, "conversation_id")),
                                            JId("")), "")),
                           Or(Get(raw_conversation, "mapping"), JDict(<<>>)))

\* What `for x in top_level` iterates over: the items of a list, the keys of a
\* dict and the characters of a string (none of them a dict); a number, a
\* boolean or null is not iterable (TypeError).
Iterable(top_level) == top_level.t \in {"list", "dict", "str", "id", "iso"}
Items(top_level) == IF IsList(top_level) THEN top_level.v ELSE <<>>

\* [raised, conversations] of a parser loop from the outcomes of its bodies.
ConversationsOf(appended) == [i \in DOMAIN appended |-> appended[i].conversation]
LoopConversations(results) ==
    IF LoopRaised(results) THEN [raised |-> TRUE, conversations |-> <<>>]
    ELSE [raised |-> FALSE, conversations |-> ConversationsOf(LoopAppended(results))]

ParseLoop(Body(_), items) == LoopConversations([i \in DOMAIN items |-> Body(items[i])])

parse_chatgpt_export(top_level) ==
    IF ~Iterable(top_level) THEN [raised |-> TRUE, conversations |-> <<>>]
    ELSE ParseLoop(ChatgptConversation, Items(top_level))

-----------------------------------------------------------------------------
(* parse_claude_export                                                     *)

\* _parse_iso_datetime: a string that datetime.fromisoformat accepts is the
\* instant it denotes; anything else yields the fallback, or the clock.
_parse_iso_datetime(raw_value, fallback) ==
    IF raw_value.t = "iso" THEN raw_value.v
    ELSE IF fallback # NoFallback THEN fallback
    ELSE utc_now

_parse_claude_content_block(block) ==
    LET block_type == StrOf(Or(Get(block, "type"), JId("unknown")), "")
        text ==
            IF block_type = "text" THEN _extract_text(Get(block, "text"), 0)
            ELSE IF block_type = "thinking" THEN _extract_text(Get(block, "thinking"), 0)
            ELSE IF block_type = "tool_use"
            THEN OrText(_extract_text(Get(block, "message"), 0),
                        _extract_text(Get(block, "input"), 0))
            ELSE IF block_type = "tool_result"
            THEN OrText(_extract_text(Get(block, "message"), 0),
                        OrText(_extract_text(Get(block, "content"), 0),
                               _extract_text(Get(block, "display_content"), 0)))
            ELSE IF block_type = "voice_note"
            THEN OrText(_extract_text(Get(block, "text"), 0),
                        _extract_text(Get(block, "title"), 0))
            ELSE _extract_text(block, 0)
    IN ContentBlockWith(block_type, OrText(text, Placeholder(block_type)),
                        _lightweight_metadata(block))

\* f"{prefix}-{index + 1}"
_fallback_file_name(prefix, index) == <<prefix, "-", ToString(index + 1)>>

FileName(record, prefix, index) ==
    IF string_or_none(Get(record, "file_name")) # <<>>
    THEN string_or_none(Get(record, "file_name"))
    ELSE _fallback_file_name(prefix, index)

_build_claude_attachment_block(attachment, attachment_index) ==
    LET file_name == FileName(attachment, "attachment", attachment_index)
        file_type == IF string_or_none(Get(attachment, "file_type")) # <<>>
                     THEN string_or_none(Get(attachment, "file_type"))
                     ELSE <<"unknown">>
        extracted_content == string_or_none(Get(attachment, "extracted_content"))
        file_size == Get(attachment, "file_size")
        named == DictSet(DictSet(DictSet(_lightweight_metadata(attachment),
                                         "file_name", JStr(file_name)),
                                 "file_type", JStr(file_type)),
                         "attachment_index", JNum(attachment_index))
        metadata == IF IsNum(file_size) THEN DictSet(named, "file_size", file_size) ELSE named
        label == file_name \o <<" (">> \o file_type \o <<")">>
    IN IF extracted_content # <<>>
       THEN ContentBlockWith("attachment", extracted_content,
                             DictSet(DictSet(DictSet(metadata,
                                                     "has_extracted_content", JBool(TRUE)),
                                             "attachment_label", JStr(label)),
                                     "extracted_content_length", JNum(Len(extracted_content))))
       ELSE ContentBlockWith("attachment", <<"[Attachment] ">> \o label,
                             DictSet(metadata, "has_extracted_content", JBool(FALSE)))

_build_claude_file_block(file_record, file_index) ==
    LET file_name == FileName(file_record, "file", file_index)
    IN ContentBlockWith("file", <<"[File] ">> \o file_name,
                        DictSet(DictSet(_lightweight_metadata(file_record),
                                        "file_name", JStr(file_name)),
                                "file_index", JNum(file_index)))

\* The blocks a list field contributes: one per dict item, built by Build from
\* the item and its 0-based index in the list.
BlocksOf(built) == [i \in DOMAIN built |-> built[i].block]
DictItemBlocks(Build(_, _), items) ==
    BlocksOf(SelectSeq([i \in DOMAIN items |->
                          IF IsDict(items[i])
                          THEN [dict |-> TRUE, block |-> Build(items[i], i - 1)]
                          ELSE [dict |-> FALSE]],
                       LAMBDA b : b.dict))

ClaudeContentBlock(block, index) == _parse_claude_content_block(block)

\* `if not content_blocks and raw_message.get("text")`: the flat text is the
\* content of a message without structured blocks.
ClaudeWithFallback(raw_message, structured) ==
    IF structured = <<>>
    THEN OneBlock("text", _extract_text(Get(raw_message, "text"), 0))
    ELSE structured

ClaudeIdentified(raw_message, message_id, sender, message_created) ==
    IF message_id = "" THEN [status |-> "skip"]
    ELSE EmitMessage(message_id, "claude",
                     IF sender = "human" THEN "user" ELSE sender,
                     message_created,
                     _parse_iso_datetime(Get(raw_message, "updated_at"), message_created),
                     JNull,
                     ClaudeWithFallback(raw_message,
                                        DictItemBlocks(ClaudeContentBlock,
                                                       ListItems(Get(raw_message, "content"))))
                     \o DictItemBlocks(_build_claude_attachment_block,
                                       ListItems(Get(raw_message, "attachments")))
                     \o DictItemBlocks(_build_claude_file_block,
                                       ListItems(Get(raw_message, "files"))))

\* The body of `for raw_message in raw_messages`.
ClaudeMessage(raw_message, created) ==
    IF ~IsDict(raw_message) THEN [status |-> "skip"]
    ELSE ClaudeIdentified(raw_message,
                          StrOf(Or(Get(raw_message, "uuid"), JId("")), ""),
                          StrOf(Or(Get(raw_message, "sender"), JId("unknown")), ""),
                          _parse_iso_datetime(Get(raw_message, "created_at"), created))

ClaudeMessages(raw_messages, created) ==
    MessagesOf(LoopAppended([i \in DOMAIN raw_messages |->
                                ClaudeMessage(raw_messages[i], created)]))

\* list.sort(key=created): a stable sort, by insertion.
RECURSIVE InsertByCreated(_, _)
InsertByCreated(sorted, m) ==
    IF sorted = <<>> THEN <<m>>
    ELSE IF sorted[Len(sorted)].created <= m.created THEN Append(sorted, m)
    ELSE Append(InsertByCreated(SubSeq(sorted, 1, Len(sorted) - 1), m), sorted[Len(sorted)])

RECURSIVE SortByCreated(_, _)
SortByCreated(messages, sorted) ==
    IF messages = <<>> THEN sorted
    ELSE SortByCreated(Tail(messages), InsertByCreated(sorted, Head(messages)))

ClaudeSorted(conversation_id, title, created, updated, messages) ==
    EmitConversation(conversation_id, "claude", title,
                     ChatgptTighten(created, updated, messages), messages)

ClaudeIdentifiedConversation(raw_conversation, conversation_id, created) ==
    IF conversation_id = "" THEN [status |-> "skip"]
    ELSE ClaudeSorted(conversation_id,
                      StrOf(Or(Get(raw_conversation, "name"), JId("[Untitled]")), ""),
                      created,
                      _parse_iso_datetime(Get(raw_conversation, "updated_at"), created),
                      SortByCreated(
                          ClaudeMessages(
                              ListItems(Or(Get(raw_conversation, "chat_messages"), JList(<<>>))),
                              created),
                          <<>>))

ClaudeConversation(raw_conversation) ==
    IF ~IsDict(raw_conversation) THEN [status |-> "skip"]
    ELSE ClaudeIdentifiedConversation(
            raw_conversation,
            StripId(StrOf(Or(Get(raw_conversation, "uuid"), JId("")), "")),
            _parse_iso_datetime(Get(raw_conversation, "created_at"), NoFallback))

parse_claude_export(top_level) ==
    IF ~Iterable(top_level) THEN [raised |-> TRUE, conversations |-> <<>>]
    ELSE ParseLoop(ClaudeConversation, Items(top_level))

-----------------------------------------------------------------------------
(* parse_gemini_export                                                     *)

\* The keys the Gemini parser knows at each level of an export.
_GEMINI_CONVERSATION_KEYS ==
    {"id", "title", "create_time", "update_time", "chunkedPrompt", "runSettings",
     "systemInstruction", "imagenPrompt"}
_GEMINI_CHUNKED_PROMPT_KEYS == {"chunks", "pendingInputs"}
_GEMINI_CHUNK_KEYS ==
    {"text", "parts", "role", "tokenCount", "finishReason", "isEdited", "branchParent",
     "branchChildren", "grounding", "thoughtSignatures", "thinkingBudget", "inlineImage",
     "inlineAudio", "driveDocument", "driveVideo", "driveAudio", "driveImage", "inlineData",
     "isGeneratedUsingApiKey", "isThought"}
_GEMINI_PART_KEYS == {"text", "thought", "thoughtSignature", "inlineData"}
_GEMINI_RUN_SETTINGS_KEYS ==
    {"model", "temperature", "topP", "topK", "maxOutputTokens", "safetySettings",
     "responseMimeType", "responseModalities", "thinkingConfig", "enableCodeExecution",
     "enableSearchAsATool", "enableBrowseAsATool", "enableAutoFunctionResponse",
     "outputResolution", "googleSearch", "thinkingLevel", "thinkingBudget", "assetCount",
     "aspectRatio"}

\* ValidationReport.check_keys: the keys of `actual` it records, those that
\* are not in `known`.  The report is printed and takes no part in the result.
check_keys(actual, known) == DOMAIN actual.v \ known

\* _extract_gemini_system_text: the stripped string, or the texts of the parts.
_extract_gemini_system_text(raw_conversation) ==
    LET si == Get(raw_conversation, "systemInstruction")
    IN IF IsStr(si) THEN strip(si.v)
       ELSE IF IsDict(si) /\ IsList(Get(si, "parts"))
       THEN LET parts == Get(si, "parts").v
                dicts == SelectSeq(parts, LAMBDA p : IsDict(p))
                texts == [i \in DOMAIN dicts |-> string_or_none(Get(dicts[i], "text"))]
            IN join(<<"\n">>, NonEmpty(texts))
       ELSE <<>>

\* f"{conversation_id}-{chunk_index}" and f"{conversation_id}-system"
GeminiMessageId(conversation_id, suffix) == conversation_id \o "-" \o suffix

\* A parser that stamps every chunk with the start of the conversation.
StartOfConversation(created, chunk_index) == created

\* message_created = created + timedelta(seconds=chunk_index)
ChunkCreated(created, chunk_index) == created + chunk_index

GeminiRoled(raw_chunk, chunk_index, conversation_id, created, model_name, is_user) ==
    EmitMessage(GeminiMessageId(conversation_id, ToString(chunk_index)), "gemini",
                IF is_user THEN "user" ELSE "assistant",
                ChunkCreated(created, chunk_index), JNull,
                IF is_user THEN JNull ELSE model_name,
                _parse_gemini_chunk(raw_chunk))

GeminiIsUser(raw_chunk, raw_role) ==
    IF raw_role = JId("user") THEN TRUE
    ELSE IF raw_role = JId("model") THEN FALSE
    ELSE Truthy(Get(raw_chunk, "isUser"))

\* The body of `for chunk_index, chunk in enumerate(chunks)`.
GeminiMessage(raw_chunk, chunk_index, conversation_id, created, model_name) ==
    IF ~IsDict(raw_chunk) THEN [status |-> "skip"]
    ELSE GeminiRoled(raw_chunk, chunk_index, conversation_id, created, model_name,
                     GeminiIsUser(raw_chunk, Get(raw_chunk, "role")))

GeminiMessages(chunks, conversation_id, created, model_name, messages) ==
    messages
    \o MessagesOf(LoopAppended([i \in DOMAIN chunks |->
                                   GeminiMessage(chunks[i], i - 1, conversation_id,
                                                 created, model_name)]))

_extract_gemini_model(run_settings) ==
    IF IsDict(run_settings) /\ IsId(Get(run_settings, "model")) /\ Truthy(Get(run_settings, "model"))
    THEN Get(run_settings, "model")
    ELSE JNull

\* Lines 1083-1087: the bounds follow the non-system messages only.
GeminiTighten(created, updated, messages) ==
    LET non_system == SelectSeq(messages, LAMBDA m : m.role # "system")
    IN IF non_system # <<>>
       THEN [created |-> Min(created, non_system[1].created),
             updated |-> Max(updated, non_system[Len(non_system)].created)]
       ELSE [created |-> created, updated |-> updated]

GeminiSystemMessage(conversation_id, created, model_name, system_text) ==
    IF system_text # <<>>
    THEN <<MessageRecord(GeminiMessageId(conversation_id, "system"), "gemini", "system",
                         created, JNull, model_name, <<ContentBlock("text", system_text)>>)>>
    ELSE <<>>

GeminiBuilt(conversation_id, title, created, updated, messages) ==
    EmitConversation(conversation_id, "gemini", title,
                     GeminiTighten(created, updated, messages), messages)

GeminiChunked(raw_conversation, conversation_id, created, model_name, chunks) ==
    IF chunks = <<>> /\ "imagenPrompt" \in DOMAIN raw_conversation.v
    THEN [status |-> "skip"]
    ELSE GeminiBuilt(conversation_id,
                     StrOf(Or(Get(raw_conversation, "title"), JId("[Untitled]")), ""),
                     created,
                     _parse_unix_datetime(Get(raw_conversation, "update_time"), created),
                     GeminiMessages(chunks, conversation_id, created, model_name,
                                    GeminiSystemMessage(
                                        conversation_id, created, model_name,
                                        _extract_gemini_system_text(raw_conversation))))

ConversationChunks(raw_conversation, chunked_prompt) ==
    ListItems(IF IsDict(chunked_prompt)
              THEN Or(Get(chunked_prompt, "chunks"), JList(<<>>))
              ELSE Or(Get(raw_conversation, "chunks"), JList(<<>>)))

GeminiIdentified(raw_conversation, conversation_id) ==
    IF conversation_id = "" THEN [status |-> "skip"]
    ELSE GeminiChunked(raw_conversation, conversation_id,
                       _parse_unix_datetime(Get(raw_conversation, "create_time"), NoFallback),
                       _extract_gemini_model(Get(raw_conversation, "runSettings")),
                       ConversationChunks(raw_conversation, Get(raw_conversation, "chunkedPrompt")))

GeminiConversation(raw_conversation) ==
    IF ~IsDict(raw_conversation) THEN [status |-> "skip"]
    ELSE GeminiIdentified(raw_conversation,
                          StripId(StrOf(Or(Get(raw_conversation, "id"), JId("")), "")))

\* A top-level value that is no list yields no conversation and no error.
parse_gemini_export(top_level) ==
    IF ~IsList(top_level) THEN [raised |-> FALSE, conversations |-> <<>>]
    ELSE ParseLoop(GeminiConversation, top_level.v)

-----------------------------------------------------------------------------
(* load_provider_conversations                                             *)

\* conversations.sort(key=created, reverse=True): stable, latest first.
RECURSIVE InsertByCreatedDesc(_, _)
InsertByCreatedDesc(sorted, c) ==
    IF sorted = <<>> THEN <<c>>
    ELSE IF sorted[Len(sorted)].created >= c.created THEN Append(sorted, c)
    ELSE Append(InsertByCreatedDesc(SubSeq(sorted, 1, Len(sorted) - 1), c),
                sorted[Len(sorted)])

\* The list left in the order of the extend() calls.
LeftUnsorted(cs, sorted) == sorted \o cs

RECURSIVE SortByCreatedDesc(_, _)
SortByCreatedDesc(cs, sorted) ==
    IF cs = <<>> THEN sorted
    ELSE SortByCreatedDesc(Tail(cs), InsertByCreatedDesc(sorted, Head(cs)))

ParseIfPresent(parse(_), file) ==
    IF file = Absent THEN [raised |-> FALSE, conversations |-> <<>>] ELSE parse(file)

\* conversations.extend(...) three times, then the sort.
MergeProviders(chatgpt, claude, gemini) ==
    IF chatgpt.raised \/ claude.raised \/ gemini.raised
    THEN [raised |-> TRUE, conversations |-> <<>>]
    ELSE [raised |-> FALSE,
          conversations |->
             SortByCreatedDesc(chatgpt.conversations \o claude.conversations
                               \o gemini.conversations, <<>>)]

\* [raised, conversations]: an error of a parser is not caught.
load_provider_conversations(chatgpt_path, claude_path, gemini_path) ==
    MergeProviders(ParseIfPresent(parse_chatgpt_export, chatgpt_path),
                   ParseIfPresent(parse_claude_export, claude_path),
                   ParseIfPresent(parse_gemini_export, gemini_path))

-----------------------------------------------------------------------------
(* Inputs of _parse_gemini_chunk.                                          *)

Hel == <<"H", "e", "l">>
lo_ == <<"l", "o", " ">>
world == <<"w", "o", "r", "l", "d">>
Hello_world == <<"H", "e", "l", "l", "o", " ", "w", "o", "r", "l", "d">>

FragmentTexts == {Hel, lo_, world, <<" ">>}

\* A part is a dict with a text (regular or flagged as a thought), a dict that
\* carries inline media, or a value that is no dict at all.
GeminiParts ==
    {JDict([text |-> JStr(s)]) : s \in FragmentTexts}
    \cup {JDict([text |-> JStr(s), thought |-> JBool(TRUE)]) : s \in FragmentTexts}
    \cup {JDict([inlineData |-> JDict([mimeType |-> JStr(<<"image/">>)])]),
          JStr(<<"a">>)}

GeminiChunks ==
    {JDict([parts |-> JList(ps)]) : ps \in SeqsUpTo(GeminiParts, MaxParts)}
    \cup {JDict([parts |-> JList(ps), text |-> JStr(world)]) :
             ps \in SeqsUpTo(GeminiParts, MaxParts - 1)}
    \cup {JDict([parts |-> JList(ps), inlineImage |-> JDict([mimeType |-> JStr(<<"image/">>)])]) :
             ps \in SeqsUpTo(GeminiParts, 1)}
    \cup {JDict([text |-> JStr(world)]),
          JDict([text |-> JStr(world), grounding |-> JDict([webSearchQueries |-> JList(<<JStr(world)>>)])])}

-----------------------------------------------------------------------------
(* Export files given to the parsers.                                      *)

Times == 0..MaxTime

real_user_text == <<"a">>
real_assistant_text == <<"b">>

TextContent(s) == JDict([content_type |-> JId("text"), parts |-> JList(<<JStr(s)>>)])
EmptyCodeContent == JDict([content_type |-> JId("code"), text |-> JStr(<<>>)])

MsgIdOf(node_id) == "msg-" \o node_id
NodeOfMsg(message_id) == CHOOSE n \in Range(NodeNames) : MsgIdOf(n) = message_id

RawMessage(node_id, role, create_time, content, metadata) ==
    JDict([id |-> JId(MsgIdOf(node_id)), author |-> JDict([role |-> JId(role)]),
           create_time |-> create_time, content |-> content, metadata |-> metadata])

Node(parent, message) == JDict([parent |-> parent, message |-> message])

Hidden == JDict([is_visually_hidden_from_conversation |-> JBool(TRUE)])
NoMetadata == JDict(<<>>)

RawChatgpt(id, create_time, update_time, current_node, mapping) ==
    JDict([id |-> id, title |-> JId("t"), create_time |-> create_time,
           update_time |-> update_time, current_node |-> current_node,
           mapping |-> JDict(mapping)])

\* The parent of the i-th node of a chain n1 <- n2 <- ... : null for the root.
ChainParent(i) == IF i = 1 THEN JNull ELSE JId(NodeNames[i - 1])
LastNode == JId(NodeNames[MaxNodes])

\* (T) A chain whose messages carry any timestamps, in any order, or none.
TimeOrNull == {JNum(t) : t \in Times} \cup {JNull}
TimedChains ==
    {RawChatgpt(JId("c1"), JNum(ct), ut, LastNode,
                [n \in NodeIds |->
                    Node(ChainParent(NodeRank(n)),
                         RawMessage(n, "user", mt[n], TextContent(real_user_text),
                                    NoMetadata))]) :
        ct \in Times, ut \in TimeOrNull, mt \in [NodeIds -> TimeOrNull]}

\* (B) Any parent pointers (branches, cycles, pointers to a missing node) and
\* any current_node; the first node may carry no message, as an export's root.
ParentChoices == {JNull, JId("gone")} \cup {JId(n) : n \in NodeIds}
BranchMessage(n, present) ==
    IF present
    THEN RawMessage(n, "user", JNum(Min(NodeRank(n), MaxTime)), TextContent(real_user_text),
                    NoMetadata)
    ELSE JNull
Trees ==
    {RawChatgpt(JId("c1"), JNum(0), JNum(MaxTime), cur,
                [n \in NodeIds |->
                    Node(par[n], BranchMessage(n, n # NodeNames[1] \/ rootmsg))]) :
        cur \in ParentChoices, par \in [NodeIds -> ParentChoices], rootmsg \in BOOLEAN}

\* (H) A chain whose messages are real text, hidden, empty, or absent.
MessageKinds == {"user", "assistant", "hidden", "empty", "blank", "empty_code", "none"}
KindMessage(n, kind) ==
    CASE kind = "user" ->
            RawMessage(n, "user", JNum(1), TextContent(real_user_text), NoMetadata)
      [] kind = "assistant" ->
            RawMessage(n, "assistant", JNum(1), TextContent(real_assistant_text), NoMetadata)
      [] kind = "hidden" ->
            RawMessage(n, "system", JNum(1), TextContent(real_user_text), Hidden)
      [] kind = "empty" -> RawMessage(n, "assistant", JNum(1), TextContent(<<>>), NoMetadata)
      [] kind = "blank" -> RawMessage(n, "assistant", JNum(1), TextContent(<<" ">>), NoMetadata)
      [] kind = "empty_code" -> RawMessage(n, "assistant", JNum(1), EmptyCodeContent, NoMetadata)
      [] kind = "none" -> JNull
NoisyChains ==
    {RawChatgpt(JId("c1"), JNum(0), JNum(MaxTime), LastNode,
                [n \in NodeIds |-> Node(ChainParent(NodeRank(n)), KindMessage(n, kind[n]))]) :
        kind \in [NodeIds -> MessageKinds]}

\* (M) Entries of unexpected shape, each beside a well-formed conversation.
OneNode(node) == [n \in {"n1"} |-> node]
GoodMessage == RawMessage("n1", "user", JNum(1), TextContent(real_user_text), NoMetadata)
WellFormed ==
    RawChatgpt(JId("good"), JNum(1), JNum(2), JId("n1"), OneNode(Node(JNull, GoodMessage)))
BadMessage(key, value) ==
    JDict([k \in DOMAIN GoodMessage.v |-> IF k = key THEN value ELSE GoodMessage.v[k]])
Malformed ==
    {JNum(7),                                                     \* no object
     JDict([title |-> JId("t")]),                                 \* no id
     RawChatgpt(JId(" "), JNum(1), JNum(2), JId("n1"), OneNode(Node(JNull, GoodMessage))),
     RawChatgpt(JId("bad"), JNum(1), JNum(2), JId("n1"), OneNode(JId("junk"))),
     RawChatgpt(JId("bad"), JNum(1), JNum(2), JNull, OneNode(JNull)),
     RawChatgpt(JId("bad"), JNum(1), JNum(2), JId("n1"), OneNode(Node(JNull, JNull))),
     RawChatgpt(JId("bad"), JNum(1), JNum(2), JId("n1"), OneNode(JDict(<<>>))),
     RawChatgpt(JId("bad"), JNum(1), JNum(2), JList(<<JId("n1")>>),
                OneNode(Node(JNull, GoodMessage))),
     RawChatgpt(JId("bad"), JNum(1), JNum(2), JNum(5), OneNode(Node(JNull, GoodMessage))),
     RawChatgpt(JId("bad"), JNum(1), JNum(2), JId("n1"),
                OneNode(Node(JNull, BadMessage("author", JId("user"))))),
     RawChatgpt(JId("bad"), JNum(1), JNum(2), JId("n1"),
                OneNode(Node(JNull, BadMessage("metadata", JId("junk"))))),
     RawChatgpt(JId("bad"), JNum(1), JNum(2), JId("n1"),
                OneNode(Node(JNull, BadMessage("content", JId("junk"))))),
     JDict([id |-> JId("bad"), mapping |-> JList(<<JNum(1)>>), current_node |-> JId("n1")])}

\* A top-level value that is no list.
NotALists == {JNull, JNum(42), JBool(TRUE), JDict([a |-> JNum(1)]), JId("abc")}

\* Files of two entries, one of them malformed, and files that hold no list.
ChatgptFiles ==
    {JList(<<bad, WellFormed>>) : bad \in Malformed}
    \cup {JList(<<WellFormed, bad>>) : bad \in Malformed}
    \cup NotALists

\* Claude: one conversation of two messages with any timestamps, or none.
IsoOrNull == {JIso(t) : t \in Times} \cup {JNull}
ClaudeRawMessage(uuid, sender, created_at, text) ==
    JDict([uuid |-> JId(uuid), sender |-> JId(sender), created_at |-> created_at,
           content |-> JList(<<JDict([type |-> JId("text"), text |-> JStr(text)])>>)])
ClaudeFiles ==
    {JList(<<JDict([uuid |-> JId("c1"), name |-> JId("t"), created_at |-> JIso(ct),
                    updated_at |-> ut,
                    chat_messages |-> JList(<<ClaudeRawMessage("m1", "human", t1, real_user_text),
                                              ClaudeRawMessage("m2", "assistant", t2,
                                                               real_assistant_text)>>)])>>) :
        ct \in Times, ut \in IsoOrNull, t1 \in IsoOrNull, t2 \in IsoOrNull}
    \cup {JList(<<JNum(7), JDict([name |-> JId("t")])>>)}
    \cup NotALists

\* Gemini: a conversation with or without a system instruction, and chunks of
\* which any may be empty or no object.
GeminiFileChunks ==
    {JDict([role |-> JId("user"), text |-> JStr(real_user_text)]),
     JDict([role |-> JId("model"), parts |-> JList(<<JDict([text |-> JStr(real_assistant_text)])>>)]),
     JDict([role |-> JId("model")]),
     JDict([role |-> JId("model"),
            parts |-> JList(<<JDict([text |-> JStr(<<" ">>)]),
                              JDict([text |-> JStr(<<>>), thought |-> JBool(TRUE)])>>)]),
     JNum(7)}
\* Conversations of three chunks of which any may yield no message.
SkippableChunks ==
    {JDict([role |-> JId("user"), text |-> JStr(real_user_text)]),
     JDict([role |-> JId("model")]),
     JNum(7)}
GeminiSkipFiles ==
    {JList(<<JDict([id |-> JId("g1"), create_time |-> JNum(ct),
                    chunkedPrompt |-> JDict([chunks |-> JList(cs)])])>>) :
        ct \in Times, cs \in [1..3 -> SkippableChunks]}

GeminiFiles ==
    {JList(<<JDict([id |-> JId("g1"), create_time |-> JNum(ct), update_time |-> ut,
                    chunkedPrompt |-> JDict([chunks |-> JList(cs)])])>>) :
        ct \in Times, ut \in TimeOrNull, cs \in SeqsUpTo(GeminiFileChunks, 2)}
    \cup {JList(<<JDict([id |-> JId("g1"), create_time |-> JNum(ct), update_time |-> ut,
                         systemInstruction |-> JStr(real_user_text),
                         chunkedPrompt |-> JDict([chunks |-> JList(cs)])])>>) :
        ct \in Times, ut \in TimeOrNull, cs \in SeqsUpTo(GeminiFileChunks, 2)}
    \cup {JList(<<JDict([id |-> JId("g1"), imagenPrompt |-> JId("p")]), JNum(7)>>)}
    \cup NotALists

\* (C) Contents of a ChatGPT message of each handled shape, with and without
\* text, in a conversation of one node.
TextlessPart == JDict([content_type |-> JId("audio_transcription"), text |-> JStr(<<>>)])
MessageContents ==
    {TextContent(real_user_text),
     TextContent(<<>>),
     JDict([content_type |-> JId("text"),
            parts |-> JList(<<JStr(real_user_text), JStr(<<" ">>)>>)]),
     JDict([content_type |-> JId("text"), text |-> JStr(<<" ">>)]),
     EmptyCodeContent,
     JDict([content_type |-> JId("thoughts"), thoughts |-> JList(<<>>)]),
     JDict([content_type |-> JId("multimodal_text"),
            parts |-> JList(<<JStr(real_user_text), TextlessPart>>)]),
     JDict([content_type |-> JId("multimodal_text"), parts |-> JList(<<TextlessPart>>)])}
ContentConversations ==
    {RawChatgpt(JId("c1"), JNum(1), JNum(2), JId("n1"),
                OneNode(Node(JNull, RawMessage("n1", "assistant", JNum(1), content,
                                               NoMetadata)))) :
        content \in MessageContents}

\* Claude: messages whose content blocks carry text or none, beside a
\* top-level text that is used when the message has no content block.
ClaudeBlocks ==
    {JDict([type |-> JId("text"), text |-> JStr(real_user_text)]),
     JDict([type |-> JId("text"), text |-> JStr(<<>>)]),
     JDict([type |-> JId("thinking"), thinking |-> JStr(<<" ">>)]),
     JDict([type |-> JId("tool_use")]),
     JStr(real_user_text)}
ClaudeBlockMessage(uuid, content, text) ==
    JDict([uuid |-> JId(uuid), sender |-> JId("assistant"), created_at |-> JIso(1),
           content |-> JList(content), text |-> JStr(text)])
ClaudeBlockFiles ==
    {JList(<<JDict([uuid |-> JId("c1"), name |-> JId("t"), created_at |-> JIso(1),
                    updated_at |-> JIso(1),
                    chat_messages |->
                        JList(<<ClaudeBlockMessage("m1", content, text),
                                ClaudeBlockMessage("m2", <<JStr(real_user_text)>>, <<" ">>)>>)])>>) :
        content \in SeqsUpTo(ClaudeBlocks, 2), text \in {<<>>, real_assistant_text}}

\* (R) A ChatGPT message whose text holds citation markers, with the
\* references of its metadata: a marker that recurs, cited URLs with any
\* query, and a second reference of any matched text.
Url(scheme, netloc, path, query, fragment) ==
    [scheme |-> scheme, netloc |-> netloc, path |-> path, query |-> query,
     fragment |-> fragment]
QueryPairs ==
    {[key |-> "utm_source", value |-> "c"], [key |-> "UTM_Source", value |-> "c"],
     [key |-> "q", value |-> "a"], [key |-> "q", value |-> "a/b"]}
CitedUrl == Url("https", "x.com", "/p", <<>>, "")
OtherUrl == Url("https", "y.org", "/", <<>>, "")
Reference(matched_text, urls) ==
    JDict([matched_text |-> JStr(matched_text),
           safe_urls |-> JList([i \in DOMAIN urls |-> JUrl(urls[i])])])
ReferenceBy(carrier, matched_text, u) ==
    CASE carrier = "alt" ->
            JDict([matched_text |-> JStr(matched_text), alt |-> JMarkdown(<<u>>)])
      [] carrier = "items" ->
            JDict([matched_text |-> JStr(matched_text),
                   items |-> JList(<<JDict([url |-> JUrl(u)])>>)])
      [] OTHER -> Reference(matched_text, <<u>>)
CitingConversation(text, references) ==
    RawChatgpt(JId("c1"), JNum(1), JNum(2), JId("n1"),
               OneNode(Node(JNull,
                            RawMessage("n1", "assistant", JNum(1), TextContent(text),
                                       JDict([content_references |-> JList(references)])))))
RecurringTexts ==
    {text \in SeqsUpTo({"a", "cite_turn1"}, MaxRecur) : "cite_turn1" \in Range(text)}
SecondReferences ==
    {Reference(<<"cite_turn2">>, <<OtherUrl>>),
     Reference(<<"cite_turn1">>, <<OtherUrl>>),
     Reference(<<"cite_turn2">>, <<>>),
     Reference(<<"x.com">>, <<OtherUrl>>),
     Reference(<<"a", "cite_turn1">>, <<OtherUrl>>),
     JNum(7)}
CitingConversations ==
    {CitingConversation(text, <<Reference(<<"cite_turn1">>, <<[CitedUrl EXCEPT !.query = query]>>)>>) :
        text \in RecurringTexts, query \in SeqsUpTo(QueryPairs, MaxQuery)}
    \cup {CitingConversation(text, <<ReferenceBy(carrier, <<"cite_turn1">>, CitedUrl), second>>) :
            text \in {<<"a", "cite_turn1">>, <<"cite_turn1", "cite_turn2">>,
                      <<"cite_turn1", "x.com", "cite_turn1">>},
            carrier \in {"alt", "safe_urls", "items"},
            second \in SecondReferences}

\* Claude: a message with attachments and files, named or not, with or
\* without extracted content.
ClaudeAttachments ==
    {JDict([file_name |-> JStr(<<"f">>), extracted_content |-> JStr(real_user_text)]),
     JDict([file_name |-> JStr(<<" ">>), extracted_content |-> JStr(<<" ">>)]),
     JDict(<<>>),
     JNum(7)}
ClaudeFileRecords == {JDict([file_name |-> JStr(<<"f">>)]), JDict(<<>>), JNum(7)}
ClaudeAttachmentFiles ==
    {JList(<<JDict([uuid |-> JId("c1"), name |-> JId("t"), created_at |-> JIso(1),
                    updated_at |-> JIso(1),
                    chat_messages |->
                        JList(<<JDict([uuid |-> JId("m1"), sender |-> JId("human"),
                                       created_at |-> JIso(1), text |-> JStr(<<>>),
                                       attachments |-> JList(attachments),
                                       files |-> JList(files)])>>)])>>) :
        attachments \in SeqsUpTo(ClaudeAttachments, 2), files \in SeqsUpTo(ClaudeFileRecords, 1)}

-----------------------------------------------------------------------------
(* Specification of one call of a parser.                                  *)

\* (I) Identities: a ChatGPT conversation whose id, fallback conversation_id,
\* message id and author role are present, blank, empty or missing; the same
\* for the uuid and sender of a Claude conversation and message, and for the
\* id of a Gemini conversation.
RawIds == {JId("c1"), JId(" "), JId(""), JNull}
RawRoles == {JId("user"), JId(" "), JId(""), JNull}
IdentityMessage(id, author) ==
    JDict([id |-> id, author |-> author, create_time |-> JNum(1),
           content |-> TextContent(real_user_text), metadata |-> NoMetadata])
ChatgptIdentities ==
    {JDict([id |-> id, conversation_id |-> conversation_id, title |-> JId("t"),
            create_time |-> JNum(1), update_time |-> JNum(2), current_node |-> JId("n1"),
            mapping |-> JDict(OneNode(Node(JNull, IdentityMessage(message_id, author))))]) :
        id \in RawIds, conversation_id \in {JNull, JId("x")}, message_id \in RawIds,
        author \in {JDict([role |-> role]) : role \in RawRoles} \cup {JNull}}
ClaudeIdentities ==
    {JDict([uuid |-> uuid, name |-> JId("t"), created_at |-> JIso(1),
            chat_messages |-> JList(<<
                JDict([uuid |-> message_uuid, sender |-> sender, created_at |-> JIso(1),
                       text |-> JStr(real_user_text)]),
                ClaudeRawMessage("m2", "assistant", JIso(2), real_assistant_text)>>)]) :
        uuid \in RawIds, message_uuid \in RawIds, sender \in RawRoles \cup {JId("human")}}
GeminiIdentities ==
    {JDict([id |-> id, create_time |-> JNum(1), systemInstruction |-> system,
            chunkedPrompt |-> JDict([chunks |-> JList(<<
                JDict([role |-> role, text |-> JStr(real_user_text)])>>)])]) :
        id \in RawIds, system \in {JNull, JStr(real_user_text)}, role \in RawRoles}

\* (X) Gemini conversations with a chunked prompt and keys the parser does not
\* know, at the level of the conversation, of runSettings, of the chunked
\* prompt, of a chunk and of a part.
WithExtra(d, extra) == IF extra = "" THEN d ELSE DictSet(d, extra, JBool(TRUE))
ExtraChunks ==
    {WithExtra(raw_chunk, extra) :
        raw_chunk \in {JDict([role |-> JId("user"), text |-> JStr(real_user_text)]),
                   JDict([text |-> JStr(real_assistant_text)])} \cup
                  {JDict([role |-> JId("model"),
                          parts |-> JList(<<WithExtra(JDict([text |-> JStr(real_assistant_text)]),
                                                      extra)>>)]) :
                      extra \in {"", "partNote"}},
        extra \in {"", "chunkNote", "isUser"}}
ExtraRunSettings ==
    {JNull} \cup {WithExtra(JDict([model |-> JId("m")]), extra) : extra \in {"", "seed"}}
GeminiExtraFiles ==
    {JList(<<WithExtra(JDict([id |-> JId("g1"), create_time |-> JNum(1),
                              runSettings |-> run_settings,
                              chunkedPrompt |->
                                  WithExtra(JDict([chunks |-> JList(<<raw_chunk>>)]),
                                            prompt_extra)]),
                       extra)>>) :
        run_settings \in ExtraRunSettings, prompt_extra \in {"", "promptNote"},
        raw_chunk \in ExtraChunks, extra \in {"", "note", "chunks"}}

InitParse ==
    /\ \/ provider = "chatgpt" /\ raw_conversations \in ChatgptFiles
       \/ provider = "chatgpt"
          /\ \E c \in TimedChains : raw_conversations = JList(<<c>>)
       \/ provider = "chatgpt"
          /\ \E c \in Trees : raw_conversations = JList(<<c>>)
       \/ provider = "chatgpt"
          /\ \E c \in NoisyChains : raw_conversations = JList(<<c>>)
       \/ provider = "chatgpt"
          /\ \E c \in ContentConversations : raw_conversations = JList(<<c>>)
       \/ provider = "chatgpt"
          /\ \E c \in CitingConversations : raw_conversations = JList(<<c>>)
       \/ provider = "chatgpt"
          /\ \E c \in ChatgptIdentities : raw_conversations = JList(<<c>>)
       \/ provider = "claude"
          /\ \E c \in ClaudeIdentities : raw_conversations = JList(<<c>>)
       \/ provider = "gemini"
          /\ \E c \in GeminiIdentities : raw_conversations = JList(<<c>>)
       \/ provider = "claude" /\ raw_conversations \in ClaudeFiles
       \/ provider = "claude" /\ raw_conversations \in ClaudeBlockFiles
       \/ provider = "claude" /\ raw_conversations \in ClaudeAttachmentFiles
       \/ provider = "gemini" /\ raw_conversations \in GeminiFiles
       \/ provider = "gemini" /\ raw_conversations \in GeminiSkipFiles
       \/ provider = "gemini" /\ raw_conversations \in GeminiExtraFiles
    /\ parsed = <<>>
    /\ parseState = "call"
    /\ ChunkIdle /\ FilesIdle /\ MergeIdle /\ Constructed /\ CliIdle

\* The call returns its list, or ends in the exception it ran into.
Return(result) ==
    /\ parseState' = IF result.raised THEN "raised" ELSE "returned"
    /\ parsed' = result.conversations
    /\ UNCHANGED <<provider, raw_conversations>>

ParseChatgptExport ==
    /\ parseState = "call" /\ provider = "chatgpt"
    /\ Return(parse_chatgpt_export(raw_conversations))
    /\ UNCHANGED <<chunkVars, fileVars, cliVars, mergeVars, serviceVars>>

ParseClaudeExport ==
    /\ parseState = "call" /\ provider = "claude"
    /\ Return(parse_claude_export(raw_conversations))
    /\ UNCHANGED <<chunkVars, fileVars, cliVars, mergeVars, serviceVars>>

ParseGeminiExport ==
    /\ parseState = "call" /\ provider = "gemini"
    /\ Return(parse_gemini_export(raw_conversations))
    /\ UNCHANGED <<chunkVars, fileVars, cliVars, mergeVars, serviceVars>>

NextParse == ParseChatgptExport \/ ParseClaudeExport \/ ParseGeminiExport

SpecParse == InitParse /\ [][NextParse]_vars

-----------------------------------------------------------------------------
(* Properties of the parsers, under SpecParse.                             *)

\* The raw conversations of the file, and those a parsed record stems from.
FileItems == IF IsList(raw_conversations) THEN raw_conversations.v ELSE <<>>
RawOf(record) ==
    {i \in DOMAIN FileItems :
        /\ IsDict(FileItems[i])
        /\ Get(FileItems[i], "id") = JId(record.id)
        /\ IsDict(Get(FileItems[i], "mapping"))}

MessageIds(record) == [a \in DOMAIN record.messages |-> record.messages[a].id]

\* The nodes of a mapping whose message goes by this id: the id of the raw
\* message or, for a message without one, the id of its node.
NodesOfMessage(mapping, message_id) ==
    {n \in DOMAIN mapping.v :
        /\ IsDict(mapping.v[n])
        /\ IsDict(Get(mapping.v[n], "message"))
        /\ StrOf(Or(Get(Get(mapping.v[n], "message"), "id"), JId(n)), "") = message_id}

\* The node reached from `start` by following k parent pointers.
ParentOf(mapping, node_id) ==
    IF IsId(node_id) /\ node_id.v \in DOMAIN mapping.v /\ IsDict(mapping.v[node_id.v])
    THEN Get(mapping.v[node_id.v], "parent")
    ELSE JNull
RECURSIVE AncestorAt(_, _, _)
AncestorAt(mapping, start, k) ==
    IF k = 0 THEN start ELSE ParentOf(mapping, AncestorAt(mapping, start, k - 1))

\* The numbers of parent steps that lead from current_node to node n.
StepsTo(mapping, current_node, n) ==
    {k \in 0..(Cardinality(DOMAIN mapping.v) - 1) : AncestorAt(mapping, current_node, k) = JId(n)}
OnActivePath(mapping, current_node, n) == StepsTo(mapping, current_node, n) # {}
Distance(mapping, current_node, n) ==
    CHOOSE k \in StepsTo(mapping, current_node, n) :
        \A j \in StepsTo(mapping, current_node, n) : k <= j

HasCurrentNode(raw) ==
    /\ IsId(Get(raw, "current_node"))
    /\ Get(raw, "current_node").v \in DOMAIN Get(raw, "mapping").v

ActiveBranchOnly(raw, record) ==
    LET mapping == Get(raw, "mapping")
        current_node == Get(raw, "current_node")
        ids == MessageIds(record)
    IN /\ \A a \in DOMAIN ids :
            /\ NodesOfMessage(mapping, ids[a]) # {}
            /\ \A n \in NodesOfMessage(mapping, ids[a]) :
                    OnActivePath(mapping, current_node, n)
       /\ \A a, b \in DOMAIN ids :
            a < b =>
                \A n \in NodesOfMessage(mapping, ids[a]), m \in NodesOfMessage(mapping, ids[b]) :
                    Distance(mapping, current_node, n) > Distance(mapping, current_node, m)

\* C1: for a tree-format conversation whose current_node is a key of mapping,
\* parse_chatgpt_export emits messages only from nodes on the parent-pointer
\* path from current_node back to the root, in root-to-current order; no
\* message of a node off that path appears in the output.
C1_OnlyActiveBranchInOrder ==
    (provider = "chatgpt" /\ parseState = "returned") =>
        \A j \in DOMAIN parsed : \A i \in RawOf(parsed[j]) :
            HasCurrentNode(FileItems[i]) => ActiveBranchOnly(FileItems[i], parsed[j])

\* A conversation with an abandoned branch was parsed: a node with a message
\* lies off the active path, and two messages of the path were emitted.
C1_Witness ==
    /\ provider = "chatgpt" /\ parseState = "returned"
    /\ \E j \in DOMAIN parsed : \E i \in RawOf(parsed[j]) :
          /\ HasCurrentNode(FileItems[i])
          /\ Len(parsed[j].messages) = 2
          /\ \E n \in DOMAIN Get(FileItems[i], "mapping").v :
                /\ IsDict(Get(Get(FileItems[i], "mapping").v[n], "message"))
                /\ ~OnActivePath(Get(FileItems[i], "mapping"),
                                 Get(FileItems[i], "current_node"), n)

\* C2: every returned conversation with at least one message has
\* created <= m.created <= updated for every message m it contains.
C2_MessagesWithinBounds ==
    parseState = "returned" =>
        \A j \in DOMAIN parsed : \A a \in DOMAIN parsed[j].messages :
            /\ parsed[j].created <= parsed[j].messages[a].created
            /\ parsed[j].messages[a].created <= parsed[j].updated

\* C4: given a top-level list, a parser returns normally whatever the shape
\* of the entries, and every well-formed conversation of the file is emitted.
C4_MalformedEntriesSkipped ==
    (parseState # "call" /\ IsList(raw_conversations)) =>
        /\ parseState = "returned"
        /\ (\E i \in DOMAIN FileItems : FileItems[i] = WellFormed) =>
                \E j \in DOMAIN parsed :
                    parsed[j].id = "good" /\ MessageIds(parsed[j]) = <<MsgIdOf("n1")>>

\* A conversation whose nodes form one chain from the root to current_node.
IsChain(raw) ==
    /\ DOMAIN Get(raw, "mapping").v = NodeIds
    /\ Get(raw, "current_node") = LastNode
    /\ \A n \in NodeIds :
          /\ IsDict(Get(raw, "mapping").v[n])
          /\ Get(Get(raw, "mapping").v[n], "parent") = ChainParent(NodeRank(n))
ChainNodes == [i \in 1..MaxNodes |-> NodeNames[i]]
NodeMessage(raw, n) == Get(Get(raw, "mapping").v[n], "message")

FlaggedHidden(message) ==
    /\ IsDict(message)
    /\ IsDict(Get(message, "metadata"))
    /\ Truthy(Get(Get(message, "metadata"), "is_visually_hidden_from_conversation"))

\* The content carries nothing but empty strings, as its text or as its parts.
OnlyEmptyString(content) ==
    /\ IsDict(content)
    /\ DOMAIN content.v \subseteq {"content_type", "parts", "text"}
    /\ DOMAIN content.v \cap {"parts", "text"} # {}
    /\ "text" \in DOMAIN content.v => content.v.text = JStr(<<>>)
    /\ "parts" \in DOMAIN content.v =>
          /\ IsList(content.v.parts)
          /\ \A a \in DOMAIN content.v.parts.v : content.v.parts.v[a] = JStr(<<>>)
EmptyText(content) ==
    OnlyEmptyString(content) /\ Get(content, "content_type") = JId("text")

HiddenOrEmpty(message) ==
    IsDict(message) /\ (FlaggedHidden(message) \/ OnlyEmptyString(Get(message, "content")))
HiddenOrEmptyText(message) ==
    IsDict(message) /\ (FlaggedHidden(message) \/ EmptyText(Get(message, "content")))

RealText(message) ==
    /\ IsDict(message) /\ ~FlaggedHidden(message)
    /\ Get(message, "content") \in {TextContent(real_user_text), TextContent(real_assistant_text)}

\* The record of a chain holds no message that is noise, keeps the order of
\* the chain, and is exactly the real-text messages when all else is noise.
NoiseDropped(raw, record, Noise(_)) ==
    /\ \A n \in NodeIds : \A a \in DOMAIN record.messages :
          Noise(NodeMessage(raw, n)) => JId(record.messages[a].id) # Get(NodeMessage(raw, n), "id")
    /\ \A a, b \in DOMAIN record.messages :
          a < b => \A n \in NodesOfMessage(Get(raw, "mapping"), record.messages[a].id),
                      m \in NodesOfMessage(Get(raw, "mapping"), record.messages[b].id) :
                      NodeRank(n) < NodeRank(m)
    /\ (\A n \in NodeIds : Noise(NodeMessage(raw, n)) \/ RealText(NodeMessage(raw, n))) =>
          LET real == SelectSeq(ChainNodes, LAMBDA n : RealText(NodeMessage(raw, n)))
          IN MessageIds(record) = [a \in DOMAIN real |-> Get(NodeMessage(raw, real[a]), "id").v]

\* C10 as stated: a message on the active branch that is flagged hidden, or
\* whose only content is an empty string, never appears in the output, and
\* the remaining messages keep their order along the branch.
C10_HiddenOrEmptyNeverAppears ==
    (provider = "chatgpt" /\ parseState = "returned") =>
        \A j \in DOMAIN parsed : \A i \in RawOf(parsed[j]) :
            IsChain(FileItems[i]) => NoiseDropped(FileItems[i], parsed[j], HiddenOrEmpty)

\* C10 amended: a message on the active branch that is flagged hidden, or
\* whose content is of content_type `text` and holds only an empty string,
\* never appears in the output, and the remaining messages keep their order
\* along the branch: real-text messages surrounded by such noise are exactly
\* the output, in their order.
C10_HiddenOrEmptyTextNeverAppears ==
    (provider = "chatgpt" /\ parseState = "returned") =>
        \A j \in DOMAIN parsed : \A i \in RawOf(parsed[j]) :
            IsChain(FileItems[i]) => NoiseDropped(FileItems[i], parsed[j], HiddenOrEmptyText)

\* A chain of a real user message, an empty text message and a real
\* assistant message, or with a hidden message, was parsed into the two.
C10_Witness ==
    /\ provider = "chatgpt" /\ parseState = "returned" /\ Len(parsed) = 1
    /\ \E i \in RawOf(parsed[1]) :
          /\ IsChain(FileItems[i])
          /\ \E n \in NodeIds : FlaggedHidden(NodeMessage(FileItems[i], n))
          /\ \E n \in NodeIds :
                /\ IsDict(NodeMessage(FileItems[i], n))
                /\ EmptyText(Get(NodeMessage(FileItems[i], n), "content"))
          /\ \E n \in NodeIds : RealText(NodeMessage(FileItems[i], n))
    /\ Len(parsed[1].messages) = 1

\* The keys of a raw block that tag it and carry no content.
TypeTags == {"content_type", "type", "role", "thought"}

\* A raw value in which no text is found: no string that is not blank.
RECURSIVE Textless(_)
Textless(value) ==
    CASE value.t = "null" -> TRUE
      [] value.t = "str" -> strip(value.v) = <<>>
      [] value.t = "list" -> \A i \in DOMAIN value.v : Textless(value.v[i])
      [] value.t = "dict" -> \A k \in DOMAIN value.v \ TypeTags : Textless(value.v[k])
      [] OTHER -> FALSE

FieldOf(d, key) == IF key \in DOMAIN d.v THEN <<d.v[key]>> ELSE <<>>

\* The raw messages of the file with the id the parser gives them, the places
\* of the message where a block can come from (its text and each of its parts
\* or content blocks), and the number of those for which the parser has a
\* placeholder: a ChatGPT object part and a ChatGPT content of another type
\* than `text`, and a Claude content block.  (The blocks that stand for the
\* attachments and files of a Claude message are left aside.)
ChatgptSource(message, node_id) ==
    LET content == Get(message, "content")
        parts == ListItems(Get(content, "parts"))
    IN [id |-> StrOf(Or(Get(message, "id"), JId(node_id)), ""),
        sources |-> FieldOf(content, "text") \o FieldOf(content, "thoughts") \o parts,
        placeholders |->
            Cardinality({a \in DOMAIN parts : IsDict(parts[a])})
            + (IF Get(content, "content_type") # JId("text") THEN 1 ELSE 0)]
ClaudeSource(message) ==
    LET content == ListItems(Get(message, "content"))
        dicts == SelectSeq(content, IsDict)
    IN [id |-> StrOf(Or(Get(message, "uuid"), JId("")), ""),
        sources |-> IF dicts = <<>> THEN FieldOf(message, "text") ELSE dicts,
        placeholders |-> Len(dicts)]
GeminiSource(conversation_id, chunks, a) ==
    [id |-> GeminiMessageId(conversation_id, ToString(a - 1)),
     sources |-> ListItems(Get(chunks[a], "parts")) \o FieldOf(chunks[a], "text"),
     placeholders |-> 0]

SourceMessagesOf(raw) ==
    IF provider = "chatgpt" /\ IsDict(Get(raw, "mapping"))
    THEN {ChatgptSource(Get(Get(raw, "mapping").v[n], "message"), n) :
            n \in {k \in DOMAIN Get(raw, "mapping").v :
                      /\ IsDict(Get(raw, "mapping").v[k])
                      /\ IsDict(Get(Get(raw, "mapping").v[k], "message"))
                      /\ IsDict(Get(Get(Get(raw, "mapping").v[k], "message"), "content"))}}
    ELSE IF provider = "claude"
    THEN {ClaudeSource(m) :
            m \in {x \in Range(ListItems(Get(raw, "chat_messages"))) :
                     IsDict(x) /\ DOMAIN x.v \cap {"attachments", "files"} = {}}}
    ELSE IF provider = "gemini" /\ IsDict(Get(raw, "chunkedPrompt"))
    THEN LET chunks == ListItems(Get(Get(raw, "chunkedPrompt"), "chunks"))
         IN {GeminiSource(StripId(StrOf(Or(Get(raw, "id"), JId("")), "")), chunks, a) :
                a \in {b \in DOMAIN chunks : IsDict(chunks[b])}}
    ELSE {}
SourceMessages ==
    UNION {SourceMessagesOf(FileItems[i]) : i \in {j \in DOMAIN FileItems : IsDict(FileItems[j])}}

\* The messages of the output with this id.
Emitted(id) ==
    UNION {{parsed[j].messages[a] : a \in {b \in DOMAIN parsed[j].messages :
                                              parsed[j].messages[b].id = id}} :
           j \in DOMAIN parsed}

WithText(m) == Cardinality({a \in DOMAIN m.sources : ~Textless(m.sources[a])})
AllTextless(m) == WithText(m) = 0

C12_NoEmptyMessageOrBlock ==
    parseState = "returned" =>
        \A j \in DOMAIN parsed : \A a \in DOMAIN parsed[j].messages :
            /\ Len(parsed[j].messages[a].content) >= 1
            /\ \A b \in DOMAIN parsed[j].messages[a].content :
                  strip(parsed[j].messages[a].content[b].text) # <<>>

\* A message with a blank string beside a real text was parsed into a
\* message of one block.
BlankSource(m) == \E a \in DOMAIN m.sources : IsStr(m.sources[a]) /\ Textless(m.sources[a])
C12_Witness ==
    /\ parseState = "returned"
    /\ \E m \in SourceMessages :
          /\ BlankSource(m) /\ ~AllTextless(m)
          /\ \E o \in Emitted(m.id) : Len(o.content) = 1

\* The text holds `sub` as a run of its tokens.
Contains(text, sub) ==
    \E i \in 1..(Len(text) - Len(sub) + 1) : SubSeq(text, i, i + Len(sub) - 1) = sub

\* The URLs a reference carries, and a URL without its tracking parameters.
CarriedUrls(reference) ==
    Range((IF Get(reference, "alt").t = "markdown" THEN Get(reference, "alt").v ELSE <<>>)
          \o UrlsOf(ListItems(Get(reference, "safe_urls")))
          \o ItemUrls(ListItems(Get(reference, "items"))))
WithoutTracking(u) == [u EXCEPT !.query = SelectSeq(@, LAMBDA pair : ~IsTracking(pair.key))]

\* The raw messages of the file whose metadata lists content references.
CitingMessages ==
    UNION {{Get(Get(FileItems[i], "mapping").v[n], "message") :
              n \in {k \in DOMAIN Get(FileItems[i], "mapping").v :
                        LET node == Get(FileItems[i], "mapping").v[k]
                        IN /\ IsDict(node) /\ IsDict(Get(node, "message"))
                           /\ IsDict(Get(Get(node, "message"), "metadata"))
                           /\ IsList(Get(Get(Get(node, "message"), "metadata"),
                                         "content_references"))}} :
           i \in {j \in DOMAIN FileItems :
                     IsDict(FileItems[j]) /\ IsDict(Get(FileItems[j], "mapping"))}}

\* The markers of the text of a message for which a reference carries a URL,
\* each with such a URL.
MessageTexts(message) == Range(ListItems(Get(Get(message, "content"), "parts")))
Citations(message) ==
    LET references == Get(Get(message, "metadata"), "content_references").v
    IN {citation \in CitationMarkers \X
            UNION {CarriedUrls(references[a]) :
                      a \in {b \in DOMAIN references : IsDict(references[b])}} :
          /\ \E text \in MessageTexts(message) : IsStr(text) /\ citation[1] \in Range(text.v)
          /\ \E a \in DOMAIN references :
                /\ IsDict(references[a])
                /\ Get(references[a], "matched_text") = JStr(<<citation[1]>>)
                /\ citation[2] \in CarriedUrls(references[a])}

\* C13: for a text with one or more occurrences of a citation marker whose
\* reference carries a URL, the rendered block text contains that URL
\* without its tracking parameters, and no occurrence of the marker.
C13_MarkerReplacedByUrl ==
    (provider = "chatgpt" /\ parseState = "returned") =>
        \A message \in CitingMessages : \A citation \in Citations(message) :
            /\ Emitted(Get(message, "id").v) # {}
            /\ \A o \in Emitted(Get(message, "id").v) :
                  /\ \E b \in DOMAIN o.content :
                        Contains(o.content[b].text, UrlText(WithoutTracking(citation[2])))
                  /\ \A b \in DOMAIN o.content : citation[1] \notin Range(o.content[b].text)

\* The messages of a record are in non-decreasing order of `created`.
Chronological(record) ==
    \A a, b \in DOMAIN record.messages :
        a < b => record.messages[a].created <= record.messages[b].created

\* The places of a message id in the chat_messages array of the Claude
\* conversation a record stems from.
ClaudePlaces(record, message_id) ==
    UNION {{a \in DOMAIN ListItems(Get(FileItems[i], "chat_messages")) :
                /\ IsDict(Get(FileItems[i], "chat_messages").v[a])
                /\ Get(Get(FileItems[i], "chat_messages").v[a], "uuid") = JId(message_id)} :
           i \in {i \in DOMAIN FileItems :
                    IsDict(FileItems[i]) /\ Get(FileItems[i], "uuid") = JId(record.id)}}

\* Messages of equal timestamp stand in the order of the source array.
TiesKeepSourceOrder(record) ==
    \A a, b \in DOMAIN record.messages :
        (/\ a < b
         /\ record.messages[a].created = record.messages[b].created
         /\ record.messages[a].id # record.messages[b].id)
        => \A x \in ClaudePlaces(record, record.messages[a].id) :
              \A y \in ClaudePlaces(record, record.messages[b].id) : x < y

\* C14: in every conversation a parser returns the messages are in
\* non-decreasing order of `created`, and in a Claude conversation messages
\* with equal timestamps keep the order of the chat_messages array.
C14_MessagesChronological ==
    parseState = "returned" =>
        \A j \in DOMAIN parsed :
            /\ Chronological(parsed[j])
            /\ provider = "claude" => TiesKeepSourceOrder(parsed[j])

\* The raw conversations of a Gemini file that a parsed record stems from.
GeminiRawOf(record) ==
    {i \in DOMAIN FileItems :
        /\ IsDict(FileItems[i])
        /\ StripId(StrOf(Or(Get(FileItems[i], "id"), JId("")), "")) = record.id}
EnvelopeStart(raw) == _parse_unix_datetime(Get(raw, "create_time"), NoFallback)
NonSystem(record) == SelectSeq(record.messages, LAMBDA m : m.role # "system")

\* C26: the message that parse_gemini_export builds from the chunk at index
\* i is created at the start time of the envelope plus i seconds, so the
\* non-system messages of a conversation have strictly increasing
\* timestamps, also when chunks between them yield no message.
C26_ChunkIndexSeconds ==
    (parseState = "returned" /\ provider = "gemini") =>
        \A j \in DOMAIN parsed : \A r \in GeminiRawOf(parsed[j]) :
            LET chunks == ConversationChunks(FileItems[r], Get(FileItems[r], "chunkedPrompt"))
                non_system == NonSystem(parsed[j])
            IN /\ \A a \in DOMAIN non_system : \E i \in DOMAIN chunks :
                     /\ non_system[a].id = GeminiMessageId(parsed[j].id, ToString(i - 1))
                     /\ non_system[a].created = EnvelopeStart(FileItems[r]) + (i - 1)
               /\ \A a \in 1..(Len(non_system) - 1) :
                     non_system[a].created < non_system[a + 1].created

\* The second of three chunks yielded no message: the two messages are two
\* seconds apart.
C26_Witness ==
    /\ parseState = "returned" /\ provider = "gemini" /\ Len(parsed) = 1
    /\ Len(ConversationChunks(FileItems[1], Get(FileItems[1], "chunkedPrompt"))) = 3
    /\ Len(parsed[1].messages) = 2
    /\ parsed[1].messages[1].id = "g1-0" /\ parsed[1].messages[2].id = "g1-2"
    /\ parsed[1].messages[2].created = parsed[1].messages[1].created + 2

\* An identifier that is empty or holds white space only.
Blank(id) == id \in {"", " "}

\* The key a provider's export names its conversations with.
IdKeyOf(provider_tag) == IF provider_tag = "claude" THEN "uuid" ELSE "id"

\* The raw conversations of the file that carry an id.
Identified ==
    {i \in DOMAIN FileItems :
        /\ IsDict(FileItems[i])
        /\ \/ Truthy(Get(FileItems[i], IdKeyOf(provider)))
           \/ provider = "chatgpt" /\ Truthy(Get(FileItems[i], "conversation_id"))}

\* The messages of a Claude conversation's chat_messages that carry a uuid.
IdentifiedMessages(raw) ==
    {a \in DOMAIN ListItems(Get(raw, "chat_messages")) :
        /\ IsDict(Get(raw, "chat_messages").v[a])
        /\ Truthy(Get(Get(raw, "chat_messages").v[a], "uuid"))}

\* C15: every returned conversation has a non-blank id and its parser's
\* provider tag, every message in it a non-blank id, the same provider tag
\* and a non-empty role; no conversation is returned for a raw conversation
\* without an id and no message for a Claude message without a uuid.
C15_RequiredFieldsPresent ==
    parseState = "returned" =>
        /\ \A j \in DOMAIN parsed :
              /\ ~Blank(parsed[j].id)
              /\ parsed[j].provider = provider
              /\ \A a \in DOMAIN parsed[j].messages :
                    /\ ~Blank(parsed[j].messages[a].id)
                    /\ parsed[j].messages[a].provider = provider
                    /\ parsed[j].messages[a].role # ""
        /\ Len(parsed) <= Cardinality(Identified)
        /\ provider = "claude" =>
              \A j \in DOMAIN parsed : \E i \in Identified :
                  Len(parsed[j].messages) <= Cardinality(IdentifiedMessages(FileItems[i]))

\* A dict without the keys that check_keys records for it.
KnownOnly(d, known) ==
    JDict([key \in DOMAIN d.v \ check_keys(d, known) |-> d.v[key]])

KnownPart(part) == IF IsDict(part) THEN KnownOnly(part, _GEMINI_PART_KEYS) ELSE part

KnownChunk(raw_chunk) ==
    IF ~IsDict(raw_chunk) THEN raw_chunk
    ELSE IF IsList(Get(raw_chunk, "parts"))
    THEN DictSet(KnownOnly(raw_chunk, _GEMINI_CHUNK_KEYS), "parts",
                 JList([a \in DOMAIN Get(raw_chunk, "parts").v |->
                           KnownPart(Get(raw_chunk, "parts").v[a])]))
    ELSE KnownOnly(raw_chunk, _GEMINI_CHUNK_KEYS)

KnownPrompt(chunked_prompt) ==
    IF IsList(Get(chunked_prompt, "chunks"))
    THEN DictSet(KnownOnly(chunked_prompt, _GEMINI_CHUNKED_PROMPT_KEYS), "chunks",
                 JList([a \in DOMAIN Get(chunked_prompt, "chunks").v |->
                           KnownChunk(Get(chunked_prompt, "chunks").v[a])]))
    ELSE KnownOnly(chunked_prompt, _GEMINI_CHUNKED_PROMPT_KEYS)

\* A conversation with a chunked prompt, without the keys that are outside
\* the known key sets at any of the five levels.
KnownConversation(raw) ==
    [key \in DOMAIN KnownOnly(raw, _GEMINI_CONVERSATION_KEYS).v |->
        IF key = "chunkedPrompt" THEN KnownPrompt(raw.v[key])
        ELSE IF key = "runSettings" /\ IsDict(raw.v[key])
        THEN KnownOnly(raw.v[key], _GEMINI_RUN_SETTINGS_KEYS)
        ELSE raw.v[key]]

HasChunkedPrompt(raw) == IsDict(raw) /\ IsDict(Get(raw, "chunkedPrompt"))

WithoutUnknownKeys ==
    JList([i \in DOMAIN FileItems |->
              IF HasChunkedPrompt(FileItems[i]) THEN JDict(KnownConversation(FileItems[i]))
              ELSE FileItems[i]])

\* C19: parse_gemini_export returns, and returns for a file of conversations
\* with chunked prompts what it returns for the same file without the keys
\* that are outside the known key sets.
C19_UnknownKeysIgnored ==
    (provider = "gemini" /\ parseState # "call" /\ IsList(raw_conversations)) =>
        /\ parseState = "returned"
        /\ ~parse_gemini_export(WithoutUnknownKeys).raised
        /\ parsed = parse_gemini_export(WithoutUnknownKeys).conversations

-----------------------------------------------------------------------------
(* Specification of one call of _parse_gemini_chunk.                       *)

InitGeminiChunk ==
    /\ chunk \in GeminiChunks
    /\ blocks = <<>>
    /\ chunkState = "call"
    /\ ParseIdle /\ FilesIdle /\ MergeIdle /\ Constructed /\ CliIdle

ParseGeminiChunk ==
    /\ chunkState = "call"
    /\ blocks' = _parse_gemini_chunk(chunk)
    /\ chunkState' = "returned"
    /\ UNCHANGED <<chunk, parseVars, fileVars, cliVars, mergeVars, serviceVars>>

NextGeminiChunk == ParseGeminiChunk

SpecGeminiChunk == InitGeminiChunk /\ [][NextGeminiChunk]_vars

-----------------------------------------------------------------------------
(* Properties of _parse_gemini_chunk, under SpecGeminiChunk.               *)

TextPart(s) == JDict([text |-> JStr(s)])
HelloChunk == JDict([parts |-> JList(<<TextPart(Hel), TextPart(lo_), TextPart(world)>>)])

\* The chunk holds regular text parts only, at least one of them.
OnlyTextParts(c) ==
    /\ DOMAIN c.v = {"parts"}
    /\ c.v.parts.v # <<>>
    /\ \A i \in DOMAIN c.v.parts.v :
          \E s \in FragmentTexts \ {<<" ">>} : c.v.parts.v[i] = TextPart(s)

\* C3: consecutive regular text parts of one chunk are merged into exactly
\* one `text` block, and the three fragments "Hel", "lo ", "world" give a
\* block whose text is "Hello world".
C3_FragmentsMergeToHelloWorld ==
    chunkState = "returned" =>
        /\ OnlyTextParts(chunk) => Len(blocks) = 1 /\ blocks[1].type = "text"
        /\ chunk = HelloChunk => blocks = <<ContentBlock("text", Hello_world)>>

ThoughtPart(s) == JDict([text |-> JStr(s), thought |-> JBool(TRUE)])

\* The kind of block each part with a text that is not blank contributes to,
\* in part order, for a chunk whose parts are text and thought parts.
RECURSIVE PartKinds(_)
PartKinds(parts) ==
    IF parts = <<>> THEN <<>>
    ELSE (IF IsDict(Head(parts)) /\ IsStr(Get(Head(parts), "text"))
             /\ strip(Get(Head(parts), "text").v) # <<>>
          THEN <<IF Get(Head(parts), "thought") = JBool(TRUE) THEN "thinking" ELSE "text">>
          ELSE <<>>)
         \o PartKinds(Tail(parts))

\* A sequence with each run of equal neighbours reduced to one element.
RECURSIVE Runs(_)
Runs(kinds) ==
    IF Len(kinds) <= 1 THEN kinds
    ELSE IF kinds[1] = kinds[2] THEN Runs(Tail(kinds))
    ELSE <<kinds[1]>> \o Runs(Tail(kinds))

\* The chunk has parts only, none of them carrying inline media.
TextAndThoughtParts(c) ==
    /\ DOMAIN c.v = {"parts"}
    /\ \A i \in DOMAIN c.v.parts.v :
          IsDict(c.v.parts.v[i]) => "inlineData" \notin DOMAIN c.v.parts.v[i].v

BlockTypes == [i \in DOMAIN blocks |-> blocks[i].type]

\* C16: _parse_gemini_chunk emits its blocks in part order, one block for
\* each run of like parts: a text part, a thought part and a text part give
\* a text block, a thinking block and a second text block, and two
\* consecutive thought parts give one thinking block whose text is the two
\* thoughts joined by a blank line.
C16_BlocksInPartOrder ==
    chunkState = "returned" =>
        /\ TextAndThoughtParts(chunk) => BlockTypes = Runs(PartKinds(chunk.v.parts.v))
        /\ \A s1, s2, t \in FragmentTexts \ {<<" ">>} :
              chunk = JDict([parts |-> JList(<<TextPart(s1), ThoughtPart(t), TextPart(s2)>>)])
              => blocks = <<ContentBlock("text", strip(s1)),
                            ContentBlock("thinking", strip(t)),
                            ContentBlock("text", strip(s2))>>
        /\ \A t1, t2 \in FragmentTexts \ {<<" ">>} :
              chunk = JDict([parts |-> JList(<<ThoughtPart(t1), ThoughtPart(t2)>>)])
              => blocks = <<ContentBlock("thinking",
                                         strip(t1) \o <<"\n", "\n">> \o strip(t2))>>

\* A text part, a thought and a second text part were parsed into three blocks.
C16_Witness ==
    /\ chunkState = "returned"
    /\ chunk = JDict([parts |-> JList(<<TextPart(Hel), ThoughtPart(lo_), TextPart(world)>>)])
    /\ blocks = <<ContentBlock("text", Hel),
                  ContentBlock("thinking", <<"l", "o">>),
                  ContentBlock("text", world)>>

\* The text of a part, stripped: empty for a part without a text.  The text
\* of the chunk itself.  A part that carries inline media of a known kind.
PartText(part) ==
    IF IsDict(part) /\ IsStr(Get(part, "text")) THEN strip(Get(part, "text").v) ELSE <<>>
ChunkText == IF IsStr(Get(chunk, "text")) THEN strip(Get(chunk, "text").v) ELSE <<>>
ChunkParts == ListItems(Get(chunk, "parts"))
MediaPart(part) ==
    /\ IsDict(part) /\ IsDict(Get(part, "inlineData"))
    /\ Get(Get(part, "inlineData"), "mimeType") \in {JStr(<<"image/">>), JStr(<<"audio/">>)}

\* C23 as stated: whenever no part of the chunk has a text that is not
\* blank, also when parts carry inline media, a chunk-level text that is not
\* blank yields a text block with that text.
C23_TopLevelTextWhenNoPartText ==
    (/\ chunkState = "returned"
     /\ ChunkText # <<>>
     /\ \A i \in DOMAIN ChunkParts : PartText(ChunkParts[i]) = <<>>) =>
        \E b \in DOMAIN blocks : blocks[b] = ContentBlock("text", ChunkText)

\* C23 amended: whenever the parts of the chunk yield no block at all (none
\* has a text that is not blank, none carries inline media), a chunk-level
\* text that is not blank yields a text block with that text, the first
\* block of the chunk.
C23_TopLevelTextWhenNoPartBlock ==
    (/\ chunkState = "returned"
     /\ ChunkText # <<>>
     /\ \A i \in DOMAIN ChunkParts :
           PartText(ChunkParts[i]) = <<>> /\ ~MediaPart(ChunkParts[i])) =>
        /\ blocks # <<>>
        /\ blocks[1] = ContentBlock("text", ChunkText)

\* A chunk with a blank part, a part that is no object, and a text of its
\* own was parsed into the one text block.
C23_Witness ==
    /\ chunkState = "returned"
    /\ chunk = JDict([parts |-> JList(<<TextPart(<<" ">>), JStr(<<"a">>)>>), text |-> JStr(world)])
    /\ blocks = <<ContentBlock("text", world)>>

-----------------------------------------------------------------------------
(* Specification of one call of load_provider_conversations.               *)

Providers == {"chatgpt", "claude", "gemini"}

\* Export files of one or two well-formed conversations of any creation time,
\* files whose top-level value is no list, a file with an entry that makes the
\* parser raise, and the absent file.
LoaderChatgptConversation(id, t) ==
    RawChatgpt(JId(id), JNum(t), JNum(t), JId("n1"),
               OneNode(Node(JNull, RawMessage("n1", "user", JNum(t),
                                              TextContent(real_user_text), NoMetadata))))
LoaderChatgptFiles ==
    {Absent}
    \cup {JList(<<LoaderChatgptConversation("abc", t)>>) : t \in Times}
    \cup {JList(<<LoaderChatgptConversation("abc", t1), LoaderChatgptConversation("c2", t2)>>) :
            t1 \in Times, t2 \in Times}
    \cup {JList(<<RawChatgpt(JId("bad"), JNum(1), JNum(2), JId("n1"), OneNode(JId("junk")))>>)}
    \cup NotALists

LoaderClaudeFiles ==
    {Absent}
    \cup {JList(<<JDict([uuid |-> JId("abc"), name |-> JId("t"), created_at |-> JIso(t),
                         updated_at |-> JIso(t),
                         chat_messages |->
                            JList(<<ClaudeRawMessage("m1", "human", JIso(t),
                                                     real_user_text)>>)])>>) : t \in Times}
    \cup {JList(<<JDict([uuid |-> JId("bad"), chat_messages |-> JNum(7)])>>)}
    \cup NotALists

LoaderGeminiFiles ==
    {Absent}
    \cup {JList(<<JDict([id |-> JId("abc"), create_time |-> JNum(t), update_time |-> JNum(t),
                         chunkedPrompt |->
                            JDict([chunks |-> JList(<<JDict([role |-> JId("user"), text |-> JStr(real_user_text)])>>)])])>>) : t \in Times}
    \cup NotALists

InitLoad ==
    /\ export_files \in [chatgpt : LoaderChatgptFiles, claude : LoaderClaudeFiles,
                         gemini : LoaderGeminiFiles]
    /\ export_media = {}
    /\ all_conversations = <<>>
    /\ mergeState = "call"
    /\ ChunkIdle /\ ParseIdle /\ Constructed /\ CliIdle

\* The call returns the merged list, or ends in the exception of a parser.
ReturnMerged(result) ==
    /\ mergeState' = IF result.raised THEN "raised" ELSE "returned"
    /\ all_conversations' = result.conversations

LoadProviderConversations ==
    /\ mergeState = "call"
    /\ ReturnMerged(load_provider_conversations(export_files.chatgpt, export_files.claude,
                                                export_files.gemini))
    /\ UNCHANGED <<chunkVars, parseVars, fileVars, cliVars, serviceVars>>

NextLoad == LoadProviderConversations

SpecLoad == InitLoad /\ [][NextLoad]_vars

-----------------------------------------------------------------------------
(* Properties of load_provider_conversations, under SpecLoad.              *)

ParserOf(p, file) ==
    CASE p = "chatgpt" -> parse_chatgpt_export(file)
      [] p = "claude" -> parse_claude_export(file)
      [] p = "gemini" -> parse_gemini_export(file)

Present(p) == export_files[p] # Absent
ParserRaises(p) == Present(p) /\ ParserOf(p, export_files[p]).raised
NonList(p) == Present(p) /\ ~IsList(export_files[p])

\* What the parser of a provider produces from the file at its path.
Produced(p) ==
    IF Present(p) /\ ~ParserRaises(p) THEN ParserOf(p, export_files[p]).conversations
    ELSE <<>>

Count(r, records) == Cardinality({i \in DOMAIN records : records[i] = r})
SameRecords(a, b) ==
    /\ Len(a) = Len(b)
    /\ \A i \in DOMAIN b : Count(b[i], a) = Count(b[i], b)
LatestFirst(cs) == \A i, j \in DOMAIN cs : i < j => cs[i].created >= cs[j].created
ProducedUnless(p, excluded) == IF p = excluded THEN <<>> ELSE Produced(p)
ProducedBesides(excluded) ==
    ProducedUnless("chatgpt", excluded) \o ProducedUnless("claude", excluded)
        \o ProducedUnless("gemini", excluded)
ProducedByAll == ProducedBesides("none")

\* C5: when the file of one provider holds a top-level value that is no list
\* (and the other present files are lists their parsers accept), the call
\* returns, the merged list holds the conversations of the other present
\* providers and holds none of the failing provider.
C5_NonListFileLeavesOthers ==
    \A p \in Providers :
        (/\ mergeState # "call"
         /\ NonList(p)
         /\ \A q \in Providers \ {p} : Present(q) => IsList(export_files[q]) /\ ~ParserRaises(q))
        => /\ mergeState = "returned"
           /\ SameRecords(all_conversations, ProducedBesides(p))
           /\ \A i \in DOMAIN all_conversations : all_conversations[i].provider # p

\* C6: a path that is absent never makes the call fail (it fails only when the
\* parser of a present file raises), and the list it returns holds exactly the
\* conversations the parsers produce from the present files, each once and
\* none of an absent provider, with `created` never increasing along the list.
C6_AbsentProvidersTolerated ==
    mergeState # "call" =>
        /\ mergeState = "raised" <=> \E p \in Providers : ParserRaises(p)
        /\ mergeState = "returned" =>
              /\ SameRecords(all_conversations, ProducedByAll)
              /\ \A i \in DOMAIN all_conversations : Present(all_conversations[i].provider)
              /\ LatestFirst(all_conversations)

\* Two of the three files are present, and the sort has moved a conversation.
C6_Witness ==
    /\ mergeState = "returned"
    /\ Cardinality({p \in Providers : Present(p)}) = 2
    /\ Len(all_conversations) >= 2
    /\ all_conversations # ProducedByAll
    /\ \E i, j \in DOMAIN all_conversations :
          all_conversations[i].provider # all_conversations[j].provider

-----------------------------------------------------------------------------
(* ChatHistoryService: the asset registry.                                 *)

IMAGE_FILE_EXTENSIONS ==
    {".png", ".jpg", ".jpeg", ".webp", ".gif", ".bmp", ".tif", ".tiff", ".heic", ".heif"}
VOICE_FILE_EXTENSIONS == {".wav", ".mp3", ".m4a", ".ogg", ".aac", ".flac", ".opus", ".webm"}
SUPPORTED_ASSET_KINDS == {"image", "audio"}
CHATGPT_ASSET_BLOCK_TYPES ==
    {"image_asset_pointer", "audio_asset_pointer", "real_time_user_audio_video_asset_pointer"}

\* A file under the export directory: its stem as the segments between
\* dashes, its suffix, its depth (len(path.parts)), its size, and its place
\* among the files ordered by (len(path.name), str(path)).
MediaFile(stem, suffix, depth, size, place) ==
    [stem |-> stem, suffix |-> suffix, depth |-> depth, size |-> size, place |-> place]

\* ChatHistoryService._string_or_none, on a value that holds an identifier.
_string_or_none(value) ==
    IF IsId(value) /\ StripId(value.v) # "" THEN JId(StripId(value.v)) ELSE JNull

\* ChatHistoryService._int_or_none and _float_or_none, on numbers.
_int_or_none(value) == IF IsNum(value) THEN value ELSE JNull
_float_or_none(value) == IF IsNum(value) THEN value ELSE JNull

\* The text after "://" of the pointers that exports hold, as stem segments;
\* a pointer without "://" is its own token.
_pointer_token(pointer) ==
    IF ~Truthy(pointer) THEN <<>>
    ELSE CASE pointer.v = "file-service://file-abc" -> <<"file", "abc">>
           [] pointer.v = "sediment://file_0001" -> <<"file_0001">>
           [] OTHER -> <<pointer.v>>

StartsWithFileUnderscore(stem) == stem # <<>> /\ stem[1] \in {"file_0001"}
StartsWithFileDash(stem) == Len(stem) >= 2 /\ stem[1] = "file"

_candidate_file_tokens(filename_stem) ==
    {filename_stem}
    \cup (IF StartsWithFileUnderscore(filename_stem) /\ Len(filename_stem) >= 2
          THEN {SubSeq(filename_stem, 1, 1)} ELSE {})
    \cup (IF StartsWithFileDash(filename_stem)
          THEN {SubSeq(filename_stem, 1, index) : index \in 2..Len(filename_stem)} ELSE {})

\* file_index[token]: the media files of the export directory under a token.
_build_export_file_index(files, token) ==
    {path \in files :
        /\ path.suffix \in IMAGE_FILE_EXTENSIONS \cup VOICE_FILE_EXTENSIONS
        /\ token \in _candidate_file_tokens(path.stem)}

\* The index that _build_asset_registry uses: empty without a ChatGPT path.
FileIndex(token) ==
    IF export_files.chatgpt = Absent THEN {}
    ELSE _build_export_file_index(export_media, token)

IsPrefix(a, b) == Len(a) <= Len(b) /\ SubSeq(b, 1, Len(a)) = a

\* score(path) of _select_best_asset_path
Score(path, token, kind) ==
    <<IF \/ kind = "image" /\ path.suffix \in IMAGE_FILE_EXTENSIONS
         \/ kind = "audio" /\ path.suffix \in VOICE_FILE_EXTENSIONS
      THEN 0 ELSE 1,
      IF path.stem = token THEN 0 ELSE IF IsPrefix(token, path.stem) THEN 1 ELSE 3,
      path.depth,
      path.place>>

ScoreLess(a, b) ==
    \E i \in 1..4 : a[i] < b[i] /\ \A j \in 1..(i - 1) : a[j] = b[j]

NoPath == [stem |-> <<>>]

\* min(candidates, key=score), or None
_select_best_asset_path(token, candidates, kind) ==
    IF candidates = {} THEN NoPath
    ELSE CHOOSE path \in candidates :
            \A other \in candidates \ {path} :
                ScoreLess(Score(path, token, kind), Score(other, token, kind))

_resolve_chatgpt_asset_path(source_pointer, kind) ==
    IF _pointer_token(source_pointer) = <<>> THEN NoPath
    ELSE _select_best_asset_path(_pointer_token(source_pointer),
                                 FileIndex(_pointer_token(source_pointer)), kind)

\* The seed of the SHA-1 digest; the digest itself is taken to be as
\* distinctive as its seed.
_build_asset_id(provider_tag, conversation_id, message_id, block_type, source_key, block_index) ==
    <<provider_tag, conversation_id, message_id, block_type, source_key, block_index>>

\* mimetypes.guess_type(path)[0]
GuessType(path) ==
    CASE path.suffix = ".png" -> JId("image/png")
      [] path.suffix = ".jpg" -> JId("image/jpeg")
      [] path.suffix = ".mp3" -> JId("audio/mpeg")
      [] OTHER -> JNull

ResolvedAsset(provider_tag, asset_id, path, media_type) ==
    [provider |-> provider_tag, asset_id |-> asset_id, path |-> path,
     media_type |-> media_type]

\* path.suffix.lstrip(".").lower()
Undotted(suffix) ==
    CASE suffix = ".png" -> "png"
      [] suffix = ".jpg" -> "jpg"
      [] suffix = ".mp3" -> "mp3"
      [] OTHER -> "ext"

None == JNull

AssetData(block) ==
    IF IsDict(Get(block.data, "asset")) THEN Get(block.data, "asset") ELSE JDict(<<>>)

AssetKind(block) ==
    Or(_string_or_none(Get(AssetData(block), "kind")),
       JId(IF block.type = "image_asset_pointer" THEN "image" ELSE "audio"))

SourcePointer(block) ==
    Or(_string_or_none(Get(AssetData(block), "source_pointer")),
       _string_or_none(Get(block.data, "asset_pointer")))

SourceKey(conversation, message, block, block_index) ==
    IF Truthy(SourcePointer(block)) THEN <<SourcePointer(block).v>>
    ELSE <<conversation.id, message.id, block_index>>

AssetId(conversation, message, block, block_index) ==
    _build_asset_id(conversation.provider, conversation.id, message.id, block.type,
                    SourceKey(conversation, message, block, block_index), block_index)

ResolvedPath(block) == _resolve_chatgpt_asset_path(SourcePointer(block), AssetKind(block).v)

FormatHint(block) ==
    IF Truthy(_string_or_none(Get(AssetData(block), "format")))
    THEN _string_or_none(Get(AssetData(block), "format"))
    ELSE IF ResolvedPath(block) # NoPath THEN JId(Undotted(ResolvedPath(block).suffix))
    ELSE None

AudioFormat(block) ==
    IF AssetKind(block).v = "audio" /\ Truthy(FormatHint(block))
    THEN JId("audio/" \o FormatHint(block).v) ELSE None

\* mime_type of a resolved asset, and media_type of one that is not.
ResolvedMimeType(block) ==
    Or(Or(_string_or_none(Get(AssetData(block), "mime_type")), GuessType(ResolvedPath(block))),
       AudioFormat(block))
UnresolvedMediaType(block) ==
    Or(_string_or_none(Get(AssetData(block), "mime_type")), AudioFormat(block))
MediaType(block) ==
    IF ResolvedPath(block) # NoPath
    THEN Or(ResolvedMimeType(block), JId("application/octet-stream"))
    ELSE UnresolvedMediaType(block)

SizeBytes(block) ==
    IF Or(_int_or_none(Get(AssetData(block), "size_bytes")),
          _int_or_none(Get(block.data, "size_bytes"))) = None
       /\ ResolvedPath(block) # NoPath
    THEN JNum(ResolvedPath(block).size)
    ELSE Or(_int_or_none(Get(AssetData(block), "size_bytes")),
            _int_or_none(Get(block.data, "size_bytes")))

AssetUrl(provider_tag, asset_id) == JId(<<"/api/assets", provider_tag, asset_id>>)

normalized_asset(conversation, message, block, block_index) ==
    JDict([asset_id |-> JId(AssetId(conversation, message, block, block_index)),
           kind |-> AssetKind(block),
           source_pointer |-> SourcePointer(block),
           mime_type |-> MediaType(block),
           size_bytes |-> SizeBytes(block),
           width |-> Or(_int_or_none(Get(AssetData(block), "width")),
                        _int_or_none(Get(block.data, "width"))),
           height |-> Or(_int_or_none(Get(AssetData(block), "height")),
                         _int_or_none(Get(block.data, "height"))),
           format |-> FormatHint(block),
           duration |-> _float_or_none(Get(AssetData(block), "duration")),
           is_resolved |-> JBool(ResolvedPath(block) # NoPath),
           asset_url |-> IF ResolvedPath(block) # NoPath
                         THEN AssetUrl(conversation.provider,
                                       AssetId(conversation, message, block, block_index))
                         ELSE None])

Enrichable(block) ==
    block.type \in CHATGPT_ASSET_BLOCK_TYPES /\ AssetKind(block).v \in SUPPORTED_ASSET_KINDS

\* The block after _enrich_chatgpt_asset_block: block.data = merged_data.
_enrich_chatgpt_asset_block(conversation, message, block, block_index) ==
    IF ~Enrichable(block) THEN block
    ELSE ContentBlockWith(block.type, block.text,
                          DictSet(block.data, "asset",
                                  normalized_asset(conversation, message, block, block_index)))

\* enumerate(message.content) counts from 0.
EnrichedMessage(conversation, message) ==
    [message EXCEPT !.content =
        [i \in DOMAIN message.content |->
            _enrich_chatgpt_asset_block(conversation, message, message.content[i], i - 1)]]

\* `if conversation.provider != "chatgpt": continue`
EnrichedMessageOf(conversation, message) ==
    IF conversation.provider # "chatgpt" THEN message
    ELSE EnrichedMessage(conversation, message)

EnrichedConversation(conversation) ==
    [conversation EXCEPT !.messages =
        [i \in DOMAIN conversation.messages |->
            EnrichedMessageOf(conversation, conversation.messages[i])]]

\* The assets that the loop of _build_asset_registry registers.
MessageAssets(conversation, message) ==
    {ResolvedAsset(conversation.provider,
                   AssetId(conversation, message, message.content[b], b - 1),
                   ResolvedPath(message.content[b]),
                   MediaType(message.content[b]).v) :
        b \in {b \in DOMAIN message.content :
                  /\ Enrichable(message.content[b])
                  /\ ResolvedPath(message.content[b]) # NoPath}}

ConversationAssets(conversation) ==
    IF conversation.provider # "chatgpt" THEN {}
    ELSE UNION {MessageAssets(conversation, conversation.messages[m]) :
                    m \in DOMAIN conversation.messages}

RegisteredAssets(cs) == UNION {ConversationAssets(cs[c]) : c \in DOMAIN cs}

AssetRegistry(assets) ==
    [key \in {<<asset.provider, asset.asset_id>> : asset \in assets} |->
        CHOOSE asset \in assets : key = <<asset.provider, asset.asset_id>>]

-----------------------------------------------------------------------------
(* ChatHistoryService.load, statement by statement.                        *)

\* dict.get(key)
MapGet(map, key) == IF key \in DOMAIN map THEN map[key] ELSE None

ConversationKey(conversation) == <<conversation.provider, conversation.id>>
LastIndex(cs, key) ==
    CHOOSE i \in DOMAIN cs :
        /\ ConversationKey(cs[i]) = key
        /\ \A j \in DOMAIN cs : ConversationKey(cs[j]) = key => j <= i

\* {(conversation.provider, conversation.id): conversation for ...}: of two
\* conversations under one key the later one stays.
ConversationMap(cs) ==
    [key \in {ConversationKey(cs[i]) : i \in DOMAIN cs} |-> cs[LastIndex(cs, key)]]

LastMessage(conversation, message_id) ==
    conversation.messages[
        CHOOSE i \in DOMAIN conversation.messages :
            /\ conversation.messages[i].id = message_id
            /\ \A j \in DOMAIN conversation.messages :
                  conversation.messages[j].id = message_id => j <= i]

MessageKeys(conversation) ==
    {<<conversation.provider, conversation.messages[i].id>> : i \in DOMAIN conversation.messages}

\* self._message_map[(conversation.provider, message.id)] = (conversation, message)
\* for every message of one conversation.
MessageMapWith(map, conversation) ==
    [key \in DOMAIN map \cup MessageKeys(conversation) |->
        IF key \in MessageKeys(conversation)
        THEN [conversation |-> conversation, message |-> LastMessage(conversation, key[2])]
        ELSE map[key]]

\* Lines 85-91: the settings store is opened and the list replaced, unless a
\* parser raises, which ends the call with the structures as they were.
LoadedConversations(result) ==
    IF result.raised
    THEN /\ loaded' = "raised" /\ loadPc' = "idle"
         /\ UNCHANGED conversations
    ELSE /\ conversations' = Structure(cycle + 1, result.conversations)
         /\ loadPc' = "conversation_map"
         /\ UNCHANGED loaded

LoadConversations ==
    /\ loadPc = "idle" /\ cycle < MaxLoads
    /\ cycle' = cycle + 1
    /\ settings_store' = "SettingsStore"
    /\ LoadedConversations(load_provider_conversations(export_files.chatgpt,
                                                      export_files.claude, Absent))
    /\ UNCHANGED <<_conversation_map, _message_map, _asset_registry, loadIndex, favorites,
                   response>>
    /\ UNCHANGED <<chunkVars, parseVars, fileVars, cliVars, mergeVars>>

\* Lines 92-95.
LoadConversationMap ==
    /\ loadPc = "conversation_map"
    /\ _conversation_map' = Structure(cycle, ConversationMap(conversations.items))
    /\ loadPc' = "message_map"
    /\ UNCHANGED <<conversations, _message_map, _asset_registry, loadIndex, cycle, loaded,
                   settings_store, favorites, response>>
    /\ UNCHANGED <<chunkVars, parseVars, fileVars, cliVars, mergeVars>>

\* Line 96.
LoadResetMessageMap ==
    /\ loadPc = "message_map"
    /\ _message_map' = Structure(cycle, <<>>)
    /\ loadIndex' = 1
    /\ loadPc' = IF conversations.items = <<>> THEN "asset_registry" ELSE "fill"
    /\ UNCHANGED <<conversations, _conversation_map, _asset_registry, cycle, loaded,
                   settings_store, favorites, response>>
    /\ UNCHANGED <<chunkVars, parseVars, fileVars, cliVars, mergeVars>>

\* Lines 97-99: one conversation of the loop.
LoadFillMessageMap ==
    /\ loadPc = "fill"
    /\ _message_map' = Structure(_message_map.cycle,
                                 MessageMapWith(_message_map.items,
                                                conversations.items[loadIndex]))
    /\ loadIndex' = loadIndex + 1
    /\ loadPc' = IF loadIndex = Len(conversations.items) THEN "asset_registry" ELSE "fill"
    /\ UNCHANGED <<conversations, _conversation_map, _asset_registry, cycle, loaded,
                   settings_store, favorites, response>>
    /\ UNCHANGED <<chunkVars, parseVars, fileVars, cliVars, mergeVars>>

\* Line 299, the first statement of _build_asset_registry.
LoadResetAssetRegistry ==
    /\ loadPc = "asset_registry"
    /\ _asset_registry' = Structure(cycle, <<>>)
    /\ loadPc' = "enrich"
    /\ UNCHANGED <<conversations, _conversation_map, _message_map, loadIndex, cycle, loaded,
                   settings_store, favorites, response>>
    /\ UNCHANGED <<chunkVars, parseVars, fileVars, cliVars, mergeVars>>

\* Lines 300-318 and the rest of load(): the blocks of the ChatGPT
\* conversations are enriched in place, which shows in the list and in both
\* maps since they hold the same objects, and the resolved assets registered.
\* Embeddings are not built (openai_enabled is off).
LoadEnrichAssets ==
    /\ loadPc = "enrich"
    /\ conversations' =
          Structure(conversations.cycle,
                    [i \in DOMAIN conversations.items |->
                        EnrichedConversation(conversations.items[i])])
    /\ _conversation_map' =
          Structure(_conversation_map.cycle,
                    [key \in DOMAIN _conversation_map.items |->
                        EnrichedConversation(_conversation_map.items[key])])
    /\ _message_map' =
          Structure(_message_map.cycle,
                    [key \in DOMAIN _message_map.items |->
                        [conversation |->
                            EnrichedConversation(_message_map.items[key].conversation),
                         message |->
                            EnrichedMessageOf(_message_map.items[key].conversation,
                                              _message_map.items[key].message)]])
    /\ _asset_registry' =
          Structure(_asset_registry.cycle,
                    AssetRegistry(RegisteredAssets(conversations.items)))
    /\ loadPc' = "idle"
    /\ loaded' = "done"
    /\ UNCHANGED <<loadIndex, cycle, settings_store, favorites, response>>
    /\ UNCHANGED <<chunkVars, parseVars, fileVars, cliVars, mergeVars>>

-----------------------------------------------------------------------------
(* ChatHistoryService: the methods that serve requests.                    *)

\* What a call returned, and the point of load() at which it ran.
Respond(op, provider_tag, id, raised, result) ==
    response' = [op |-> op, provider |-> provider_tag, id |-> id, raised |-> raised,
                 result |-> result, pc |-> loadPc, loaded |-> loaded]

\* SettingsStore.favorite_keys(): the rows WHERE is_favorite = 1.
favorite_keys == {key \in DOMAIN favorites : favorites[key]}

title_str(conversation) == IF conversation.title # "" THEN conversation.title ELSE "[Untitled]"

open_url(conversation) ==
    IF conversation.provider = "claude" THEN <<"https://claude.ai/chat/", conversation.id>>
    ELSE IF conversation.provider = "gemini" THEN <<"https://aistudio.google.com/">>
    ELSE <<"https://chat.openai.com/c/", conversation.id>>

\* An entry of list_conversations, without the fields that render a time for
\* display (group, created, total_length).
ListEntry(conversation) ==
    [id |-> conversation.id,
     provider |-> conversation.provider,
     title |-> title_str(conversation),
     is_favorite |-> ConversationKey(conversation) \in favorite_keys,
     open_url |-> open_url(conversation)]

\* list_conversations raises RuntimeError while no settings store is open.
list_conversations ==
    [i \in DOMAIN conversations.items |-> ListEntry(conversations.items[i])]

ListConversations ==
    /\ IF settings_store = "None"
       THEN Respond("list_conversations", "", "", TRUE, <<>>)
       ELSE Respond("list_conversations", "", "", FALSE, list_conversations)
    /\ UNCHANGED <<structureVars, loadPc, loadIndex, cycle, loaded, settings_store,
                   favorites>>
    /\ UNCHANGED <<chunkVars, parseVars, fileVars, cliVars, mergeVars>>

get_conversation(provider_tag, conversation_id) ==
    MapGet(_conversation_map.items, <<provider_tag, conversation_id>>)

RequestIds == {"abc", "c1"}

GetConversation ==
    /\ \E provider_tag \in Providers, conversation_id \in RequestIds :
          Respond("get_conversation", provider_tag, conversation_id, FALSE,
                  get_conversation(provider_tag, conversation_id))
    /\ UNCHANGED <<structureVars, loadPc, loadIndex, cycle, loaded, settings_store,
                   favorites>>
    /\ UNCHANGED <<chunkVars, parseVars, fileVars, cliVars, mergeVars>>

\* MessageRecord.text(): "\n\n".join of the stripped, non-empty block texts.
MessageText(message) ==
    strip(join(<<"\n\n">>,
               SelectSeq([i \in DOMAIN message.content |-> strip(message.content[i].text)],
                         LAMBDA text : text # <<>>)))

_serialize_message_blocks(message) ==
    SelectSeq([i \in DOMAIN message.content |->
                  [type |-> message.content[i].type,
                   text |-> strip(message.content[i].text),
                   data |-> message.content[i].data]],
              LAMBDA block : block.text # <<>>)

GapSeconds == 3600

\* The payload entries of one message: an "internal" entry first when an hour
\* or more has passed since the previous message.
PayloadEntries(sorted, i) ==
    (IF i > 1 /\ sorted[i].created - sorted[i - 1].created >= GapSeconds
     THEN <<[role |-> "internal", blocks |-> <<>>,
             text |-> <<sorted[i].created - sorted[i - 1].created, "passed">>]>>
     ELSE <<>>)
    \o <<[role |-> sorted[i].role, blocks |-> _serialize_message_blocks(sorted[i]),
          text |-> MessageText(sorted[i]), created |-> sorted[i].created]>>

RECURSIVE PayloadMessages(_, _)
PayloadMessages(sorted, i) ==
    IF i > Len(sorted) THEN <<>>
    ELSE PayloadEntries(sorted, i) \o PayloadMessages(sorted, i + 1)

MessagesPayload(conversation) ==
    IF conversation = None THEN None
    ELSE [conversation_id |-> conversation.id,
          provider |-> conversation.provider,
          open_url |-> open_url(conversation),
          messages |-> PayloadMessages(SortByCreated(conversation.messages, <<>>), 1)]

get_messages(provider_tag, conversation_id) ==
    MessagesPayload(get_conversation(provider_tag, conversation_id))

GetMessages ==
    /\ \E provider_tag \in Providers, conversation_id \in RequestIds :
          Respond("get_messages", provider_tag, conversation_id, FALSE,
                  get_messages(provider_tag, conversation_id))
    /\ UNCHANGED <<structureVars, loadPc, loadIndex, cycle, loaded, settings_store,
                   favorites>>
    /\ UNCHANGED <<chunkVars, parseVars, fileVars, cliVars, mergeVars>>

\* _format_stats_for_conversations, without the entries that render a date.
RECURSIVE MessageCount(_)
MessageCount(cs) ==
    IF cs = <<>> THEN 0
    ELSE Len(cs[1].messages) + MessageCount(Tail(cs))

_format_stats_for_conversations(cs) ==
    [Conversations |-> Len(cs), Messages |-> MessageCount(cs)]

ProviderGroup(provider_tag) ==
    SelectSeq(conversations.items, LAMBDA conversation : conversation.provider = provider_tag)

get_statistics ==
    [summary |-> _format_stats_for_conversations(conversations.items),
     by_provider |->
        [provider_tag \in {conversations.items[i].provider : i \in DOMAIN conversations.items} |->
            _format_stats_for_conversations(ProviderGroup(provider_tag))]]

GetStatistics ==
    /\ Respond("get_statistics", "", "", FALSE, get_statistics)
    /\ UNCHANGED <<structureVars, loadPc, loadIndex, cycle, loaded, settings_store,
                   favorites>>
    /\ UNCHANGED <<chunkVars, parseVars, fileVars, cliVars, mergeVars>>

\* get_asset: the files of the export directory do not go away.
get_asset(provider_tag, asset_id) == MapGet(_asset_registry.items, <<provider_tag, asset_id>>)

UnknownAsset == <<"chatgpt", <<"unknown">>>>

GetAsset ==
    /\ \E key \in DOMAIN _asset_registry.items \cup {UnknownAsset} :
          Respond("get_asset", key[1], key[2], FALSE, get_asset(key[1], key[2]))
    /\ UNCHANGED <<structureVars, loadPc, loadIndex, cycle, loaded, settings_store,
                   favorites>>
    /\ UNCHANGED <<chunkVars, parseVars, fileVars, cliVars, mergeVars>>

\* str(message.created.date()): the UTC day of an instant given in seconds.
DayOf(created) == created \div 86400

\* Every message of the loaded conversations with its conversation's provider,
\* in the order of the two nested loops.
LoadedMessages ==
    Flatten([c \in DOMAIN conversations.items |->
                [m \in DOMAIN conversations.items[c].messages |->
                    [provider |-> conversations.items[c].provider,
                     message |-> conversations.items[c].messages[m]]]])

\* sorted(...) of provider tags
ProviderOrder == <<"chatgpt", "claude", "gemini">>
SortedProviders(tags) == SelectSeq(ProviderOrder, LAMBDA tag : tag \in tags)

MessagesOfDay(day, tags) ==
    {i \in DOMAIN LoadedMessages :
        /\ DayOf(LoadedMessages[i].message.created) = day
        /\ LoadedMessages[i].provider \in tags}

get_activity ==
    [providers |-> SortedProviders({LoadedMessages[i].provider : i \in DOMAIN LoadedMessages}),
     provider_totals |->
        [tag \in {LoadedMessages[i].provider : i \in DOMAIN LoadedMessages} |->
            Cardinality({i \in DOMAIN LoadedMessages : LoadedMessages[i].provider = tag})],
     days |->
        [day \in {DayOf(LoadedMessages[i].message.created) : i \in DOMAIN LoadedMessages} |->
            [total |-> Cardinality(MessagesOfDay(day, Providers)),
             providers |->
                [tag \in {tag \in Providers : MessagesOfDay(day, {tag}) # {}} |->
                    Cardinality(MessagesOfDay(day, {tag}))]]]]

GetActivity ==
    /\ Respond("get_activity", "", "", FALSE, get_activity)
    /\ UNCHANGED <<structureVars, loadPc, loadIndex, cycle, loaded, settings_store,
                   favorites>>
    /\ UNCHANGED <<chunkVars, parseVars, fileVars, cliVars, mergeVars>>

\* The entry of one conversation of get_activity_day.
DayEntry(conversation, day) ==
    [provider |-> conversation.provider,
     id |-> conversation.id,
     message_count |->
        Cardinality({m \in DOMAIN conversation.messages :
                        DayOf(conversation.messages[m].created) = day})]

RECURSIVE TotalMessages(_)
TotalMessages(entries) ==
    IF entries = <<>> THEN 0
    ELSE entries[1].message_count + TotalMessages(Tail(entries))

\* `provider` is None, or a tag that every other provider is left out for.
DayConversations(day, provider_tag) ==
    SelectSeq([c \in DOMAIN conversations.items |-> DayEntry(conversations.items[c], day)],
              LAMBDA entry : /\ provider_tag \in {"", entry.provider}
                             /\ entry.message_count # 0)

get_activity_day(day, provider_tag) ==
    [date |-> day,
     provider |-> provider_tag,
     conversations |-> DayConversations(day, provider_tag),
     total_messages |-> TotalMessages(DayConversations(day, provider_tag))]

RequestDays == {0, 1}

GetActivityDay ==
    /\ \E day \in RequestDays, provider_tag \in Providers \cup {""} :
          Respond("get_activity_day", provider_tag, day, FALSE,
                  get_activity_day(day, provider_tag))
    /\ UNCHANGED <<structureVars, loadPc, loadIndex, cycle, loaded, settings_store,
                   favorites>>
    /\ UNCHANGED <<chunkVars, parseVars, fileVars, cliVars, mergeVars>>

\* MessageRecord.count_tokens(): the length of the encoded text, 0 for no text.
count_tokens(message) == Len(MessageText(message))

\* message.model or "unknown"
ModelOf(message) == StrOf(Or(message.model, JId("unknown")), "")

TokenKeys ==
    {<<LoadedMessages[i].provider, ModelOf(LoadedMessages[i].message)>> :
        i \in {i \in DOMAIN LoadedMessages : count_tokens(LoadedMessages[i].message) # 0}}

RECURSIVE TokenSum(_, _, _)
TokenSum(key, user, i) ==
    IF i > Len(LoadedMessages) THEN 0
    ELSE (IF /\ <<LoadedMessages[i].provider, ModelOf(LoadedMessages[i].message)>> = key
             /\ (LoadedMessages[i].message.role = "user") = user
          THEN count_tokens(LoadedMessages[i].message) ELSE 0)
         + TokenSum(key, user, i + 1)

TokenRow(key) ==
    [provider |-> key[1], model |-> key[2],
     input_tokens |-> TokenSum(key, TRUE, 1),
     output_tokens |-> TokenSum(key, FALSE, 1),
     total_tokens |-> TokenSum(key, TRUE, 1) + TokenSum(key, FALSE, 1)]

\* The order of strings, for the tags and model names that occur.
StringOrder == <<"chatgpt", "claude", "gemini", "gpt-4", "repr", "unknown">>
StringRank(string) ==
    IF \E i \in DOMAIN StringOrder : StringOrder[i] = string
    THEN CHOOSE i \in DOMAIN StringOrder : StringOrder[i] = string
    ELSE 0

\* key=lambda item: (item["provider"], -item["total_tokens"], item["model"])
RowBefore(a, b) ==
    \/ StringRank(a.provider) < StringRank(b.provider)
    \/ /\ a.provider = b.provider
       /\ \/ a.total_tokens > b.total_tokens
          \/ a.total_tokens = b.total_tokens /\ StringRank(a.model) < StringRank(b.model)

RECURSIVE SortedRows(_)
SortedRows(rows) ==
    IF rows = {} THEN <<>>
    ELSE LET first == CHOOSE row \in rows : \A other \in rows \ {row} : RowBefore(row, other)
         IN <<first>> \o SortedRows(rows \ {first})

get_token_statistics == SortedRows({TokenRow(key) : key \in TokenKeys})

GetTokenStatistics ==
    /\ Respond("get_token_statistics", "", "", FALSE, get_token_statistics)
    /\ UNCHANGED <<structureVars, loadPc, loadIndex, cycle, loaded, settings_store,
                   favorites>>
    /\ UNCHANGED <<chunkVars, parseVars, fileVars, cliVars, mergeVars>>

\* markdown(text, extensions=["fenced_code"]): a paragraph, nothing for no text.
markdown(text) == IF text = <<>> THEN <<>> ELSE <<"<p>">> \o text \o <<"</p>">>

\* conversation.title_str as a text
TitleText(conversation) == <<title_str(conversation)>>

_build_search_result(result_type, conversation, message) ==
    [type |-> result_type,
     provider |-> conversation.provider,
     id |-> conversation.id,
     title |-> title_str(conversation),
     text |-> markdown(IF message # None THEN MessageText(message)
                       ELSE TitleText(conversation)),
     role |-> IF message # None THEN message.role ELSE "conversation",
     open_url |-> open_url(conversation)]

\* The loop over the messages of one conversation: the results so far, and
\* whether the limit ended the search.
RECURSIVE MessageHits(_, _, _, _, _)
MessageHits(conversation, query_lower, limit, results, m) ==
    IF m > Len(conversation.messages) THEN [results |-> results, returned |-> FALSE]
    ELSE LET found == IF Contains(lower(MessageText(conversation.messages[m])), query_lower)
                      THEN Append(results,
                                  _build_search_result("message", conversation,
                                                       conversation.messages[m]))
                      ELSE results
         IN IF Len(found) >= limit THEN [results |-> found, returned |-> TRUE]
            ELSE MessageHits(conversation, query_lower, limit, found, m + 1)

TitleHit(conversation, query_lower, results) ==
    IF Contains(lower(TitleText(conversation)), query_lower)
    THEN Append(results,
                _build_search_result("conversation", conversation,
                                     IF conversation.messages # <<>>
                                     THEN conversation.messages[1] ELSE None))
    ELSE results

RECURSIVE ConversationHits(_, _, _, _)
ConversationHits(query_lower, limit, results, c) ==
    IF c > Len(conversations.items) THEN results
    ELSE IF \/ MessageHits(conversations.items[c], query_lower, limit,
                           TitleHit(conversations.items[c], query_lower, results), 1).returned
            \/ Len(MessageHits(conversations.items[c], query_lower, limit,
                               TitleHit(conversations.items[c], query_lower, results),
                               1).results) >= limit
    THEN MessageHits(conversations.items[c], query_lower, limit,
                     TitleHit(conversations.items[c], query_lower, results), 1).results
    ELSE ConversationHits(query_lower, limit,
                          MessageHits(conversations.items[c], query_lower, limit,
                                      TitleHit(conversations.items[c], query_lower, results),
                                      1).results,
                          c + 1)

_strict_search(query, limit) == ConversationHits(lower(query), limit, <<>>, 1)

\* query.startswith('"') and query.endswith('"') and len(query) > 1
Quoted(query) == Len(query) > 1 /\ query[1] = "\"" /\ query[Len(query)] = "\""

\* search: no OpenAI client is set up, so every query is a strict one.
search(query, limit) ==
    IF strip(query) = <<>> THEN <<>>
    ELSE IF Quoted(strip(query))
    THEN _strict_search(lower(strip(SubSeq(strip(query), 2, Len(strip(query)) - 1))), limit)
    ELSE _strict_search(lower(strip(query)), limit)

DefaultLimit == 20
Queries == {<<" ">>, <<"a">>, <<" ", "b">>, <<"t">>, <<"\"", "a", "\"">>, <<"H">>}

Search ==
    /\ \E query \in Queries, limit \in {1, DefaultLimit} :
          Respond("search", "", <<query, limit>>, FALSE, search(query, limit))
    /\ UNCHANGED <<structureVars, loadPc, loadIndex, cycle, loaded, settings_store,
                   favorites>>
    /\ UNCHANGED <<chunkVars, parseVars, fileVars, cliVars, mergeVars>>

\* SettingsStore.toggle_favorite, the value it returns: a conversation
\* without a row becomes a favorite, one with a row has its flag turned over.
is_favorite(rows, key) == IF key \in DOMAIN rows THEN ~rows[key] ELSE TRUE

\* A toggle that leaves the table as it is.
StoreUntouched(rows, key) == rows

\* SettingsStore.toggle_favorite, the table after the INSERT or UPDATE.
ToggledStore(rows, key) ==
    [k \in DOMAIN rows \cup {key} |-> IF k # key THEN rows[k] ELSE is_favorite(rows, key)]

FavoriteRequests == {<<"chatgpt", "abc">>, <<"gemini", "none">>}

\* toggle_favorite raises RuntimeError while no settings store is open, and
\* does not look the conversation up.
ToggleFavorite ==
    /\ \E key \in FavoriteRequests :
          IF settings_store = "None"
          THEN /\ Respond("toggle_favorite", key[1], key[2], TRUE, FALSE)
               /\ UNCHANGED favorites
          ELSE /\ favorites' = ToggledStore(favorites, key)
               /\ Respond("toggle_favorite", key[1], key[2], FALSE,
                          is_favorite(favorites, key))
    /\ UNCHANGED <<structureVars, loadPc, loadIndex, cycle, loaded, settings_store>>
    /\ UNCHANGED <<chunkVars, parseVars, fileVars, cliVars, mergeVars>>

-----------------------------------------------------------------------------
(* Specification of a service whose load() runs while requests are served. *)

\* ChatGPT: a conversation "abc" of a question and, an hour later, an answer
\* that holds an image; or a conversation "c1" followed by a plain "abc"; or a
\* file that holds a number.
ImagePart ==
    JDict([content_type |-> JId("image_asset_pointer"),
           asset_pointer |-> JId("file-service://file-abc"),
           width |-> JNum(2), height |-> JNum(1)])
\* An image part that carries a title of its own.
TitledImagePart == DictSet(ImagePart, "title", JStr(<<"c", "a", "t">>))
ImageContentOf(part) ==
    JDict([content_type |-> JId("multimodal_text"),
           parts |-> JList(<<part, JStr(real_assistant_text)>>)])
ImageContent == ImageContentOf(ImagePart)
TwoNodes(first, second) ==
    [n \in {"n1", "n2"} |-> IF n = "n1" THEN Node(JNull, first) ELSE Node(JId("n1"), second)]
ImageConversation ==
    RawChatgpt(JId("abc"), JNum(0), JNum(GapSeconds), JId("n2"),
               TwoNodes(RawMessage("n1", "user", JNum(0), TextContent(real_user_text),
                                   NoMetadata),
                        RawMessage("n2", "assistant", JNum(GapSeconds), ImageContent,
                                   NoMetadata)))
TitledImageConversation ==
    RawChatgpt(JId("abc"), JNum(0), JNum(GapSeconds), JId("n2"),
               TwoNodes(RawMessage("n1", "user", JNum(0), TextContent(real_user_text),
                                   NoMetadata),
                        RawMessage("n2", "assistant", JNum(GapSeconds),
                                   ImageContentOf(TitledImagePart), NoMetadata)))
ServiceChatgptFiles ==
    {Absent,
     JNum(42),
     JList(<<ImageConversation>>),
     JList(<<TitledImageConversation>>),
     JList(<<LoaderChatgptConversation("c1", 2), LoaderChatgptConversation("abc", 1)>>)}

ServiceClaudeFiles ==
    {Absent,
     JList(<<JDict([uuid |-> JId("abc"), name |-> JId("t"), created_at |-> JIso(1),
                    updated_at |-> JIso(2),
                    chat_messages |->
                       JList(<<ClaudeRawMessage("m1", "human", JIso(1), real_user_text),
                               ClaudeRawMessage("m2", "assistant", JIso(2),
                                                real_assistant_text)>>)])>>)}

ServiceGeminiFiles ==
    {Absent,
     JList(<<JDict([id |-> JId("abc"), create_time |-> JNum(3), update_time |-> JNum(3),
                    chunkedPrompt |->
                       JDict([chunks |->
                                JList(<<JDict([role |-> JId("user"),
                                               text |-> JStr(real_user_text)])>>)])])>>)}

\* The export directory: no media, the image under its own name beside a
\* recording of the same stem, a renamed copy of the image and a text file, or
\* another image beside a text file of the image's name.
ServiceMedia ==
    {{},
     {MediaFile(<<"file", "xyz">>, ".png", 2, 10, 1),
      MediaFile(<<"file", "abc">>, ".txt", 2, 5, 2)},
     {MediaFile(<<"file", "abc">>, ".png", 2, 10, 2),
      MediaFile(<<"file", "abc">>, ".mp3", 2, 20, 1)},
     {MediaFile(<<"file", "abc", "photo">>, ".jpg", 3, 30, 3),
      MediaFile(<<"file", "abc">>, ".txt", 2, 5, 4)}}

InitService ==
    /\ export_files \in [chatgpt : ServiceChatgptFiles, claude : ServiceClaudeFiles,
                         gemini : ServiceGeminiFiles]
    /\ export_media \in ServiceMedia
    /\ Constructed
    /\ ChunkIdle /\ ParseIdle /\ MergeIdle /\ CliIdle

Load ==
    \/ LoadConversations
    \/ LoadConversationMap
    \/ LoadResetMessageMap
    \/ LoadFillMessageMap
    \/ LoadResetAssetRegistry
    \/ LoadEnrichAssets

Reader ==
    \/ ListConversations
    \/ GetConversation
    \/ GetMessages
    \/ GetStatistics
    \/ GetAsset

NextService == Load \/ Reader

SpecService == InitService /\ [][NextService]_vars

-----------------------------------------------------------------------------
(* Specification of a service that serves requests between calls of       *)
(* load(), none while a call is under way.                                 *)

\* The exports of InitService that load() goes through with: a ChatGPT file
\* of conversations, with or without a Claude file beside it.
InitServing ==
    /\ export_files \in [chatgpt : {file \in ServiceChatgptFiles : file # Absent /\ IsList(file)},
                         claude : ServiceClaudeFiles,
                         gemini : {Absent}]
    /\ export_media \in ServiceMedia
    /\ Constructed
    /\ ChunkIdle /\ ParseIdle /\ MergeIdle /\ CliIdle

LoadCompleted == loadPc = "idle" /\ loaded = "done"

Serving ==
    /\ LoadCompleted
    /\ \/ ListConversations
       \/ GetConversation
       \/ GetMessages
       \/ GetActivity
       \/ GetActivityDay
       \/ GetStatistics
       \/ GetTokenStatistics
       \/ Search
       \/ GetAsset
       \/ ToggleFavorite

NextServing == Load \/ Serving

SpecServing == InitServing /\ [][NextServing]_vars

-----------------------------------------------------------------------------
(* Properties of the service, under SpecService.                           *)

\* The file of the provider yields a conversation of that id.
HasId(p, id) == \E i \in DOMAIN Produced(p) : Produced(p)[i].id = id

\* The call ran after a load() that went through, and outside any other.
AfterLoad == response.pc = "idle" /\ response.loaded = "done"
Answered(op) == response.op = op /\ AfterLoad
AnsweredFor(op, p, id) == Answered(op) /\ response.provider = p /\ response.id = id

InLoadedList(p, id) ==
    \E i \in DOMAIN conversations.items : ConversationKey(conversations.items[i]) = <<p, id>>

\* The record is the one the parser of the provider made of that id: the
\* same title, bounds and messages, whatever load() added to their blocks.
MessageIdsOf(conversation) ==
    [i \in DOMAIN conversation.messages |-> conversation.messages[i].id]
RecordOf(p, id, record) ==
    /\ record # None
    /\ \E i \in DOMAIN Produced(p) :
          /\ Produced(p)[i].id = id /\ Produced(p)[i].provider = p
          /\ record.id = id /\ record.provider = p
          /\ record.title = Produced(p)[i].title
          /\ record.created = Produced(p)[i].created
          /\ MessageIdsOf(record) = MessageIdsOf(Produced(p)[i])

\* C7: when the files of two providers each hold a conversation of one and the
\* same id, then after load() both are in the loaded list, and
\* get_conversation and get_messages answer for each provider with the record
\* of that provider.
C7_SameIdKeptApart ==
    \A p \in Providers, id \in RequestIds :
        (\E q \in Providers \ {p} : HasId(p, id) /\ HasId(q, id)) =>
            /\ (loadPc = "idle" /\ loaded = "done") => InLoadedList(p, id)
            /\ AnsweredFor("get_conversation", p, id) => RecordOf(p, id, response.result)
            /\ AnsweredFor("get_messages", p, id) =>
                  /\ response.result # None
                  /\ response.result.provider = p
                  /\ response.result.conversation_id = id

\* C8: when the files of chatgpt, claude and gemini are all present, each with
\* a conversation, then after load() the conversations of list_conversations
\* and the groups of get_statistics are of exactly these three providers.
C8_AllThreeProvidersLoaded ==
    (\A p \in Providers : Present(p) /\ ~ParserRaises(p) /\ Produced(p) # <<>>) =>
        /\ Answered("list_conversations") =>
              /\ ~response.raised
              /\ {response.result[i].provider : i \in DOMAIN response.result} = Providers
        /\ Answered("get_statistics") => DOMAIN response.result.by_provider = Providers

\* The four structures a reader can see are those of one call of load().
SameLoadCycle ==
    /\ conversations.cycle = _conversation_map.cycle
    /\ conversations.cycle = _message_map.cycle
    /\ conversations.cycle = _asset_registry.cycle

\* C9: whenever a reader runs, also while load() is under way, the
\* conversation list, the conversation map, the message map and the asset
\* registry are all of the same load cycle.
C9_ReadersSeeOneLoadCycle == [][Reader => SameLoadCycle]_vars

\* The image asset blocks of the loaded conversations, each with its
\* conversation, its message and its place in the message (from 0), whose
\* source pointer matches no file of the export directory.
UnresolvedImages ==
    {[conversation |-> conversations.items[c],
      message |-> conversations.items[c].messages[m],
      block |-> conversations.items[c].messages[m].content[b],
      block_index |-> b - 1] :
        <<c, m, b>> \in
            {x \in (DOMAIN conversations.items) \X (1..MaxNodes) \X (1..MaxParts) :
                /\ conversations.items[x[1]].provider = "chatgpt"
                /\ x[2] \in DOMAIN conversations.items[x[1]].messages
                /\ x[3] \in DOMAIN conversations.items[x[1]].messages[x[2]].content
                /\ conversations.items[x[1]].messages[x[2]].content[x[3]].type
                      = "image_asset_pointer"
                /\ ResolvedPath(conversations.items[x[1]].messages[x[2]].content[x[3]])
                      = NoPath}}

\* The block says it is unresolved and has no URL, and the registry serves
\* nothing under its asset id.
NotServable(image) ==
    /\ Get(AssetData(image.block), "is_resolved") = JBool(FALSE)
    /\ Get(AssetData(image.block), "asset_url") = JNull
    /\ \A key \in DOMAIN _asset_registry.items :
          key # <<image.conversation.provider,
                  AssetId(image.conversation, image.message, image.block,
                          image.block_index)>>

\* The image parts of the ChatGPT file that the block may stem from: those of
\* the message of its id that name its source pointer.
RawPartsOf(image) ==
    UNION {UNION {{part \in Range(ListItems(Get(Get(message, "content"), "parts"))) :
                      /\ IsDict(part)
                      /\ Get(part, "content_type") = JId("image_asset_pointer")
                      /\ Get(part, "asset_pointer") = SourcePointer(image.block)} :
                  message \in {Get(node, "message") :
                                  node \in {n \in Range(Get(raw, "mapping").v) :
                                              /\ IsDict(n) /\ IsDict(Get(n, "message"))
                                              /\ Get(Get(n, "message"), "id")
                                                    = JId(image.message.id)}}} :
           raw \in {r \in Range(ListItems(export_files.chatgpt)) :
                       IsDict(r) /\ IsDict(Get(r, "mapping"))}}

\* The texts a part carries of its own, stripped.
OwnTexts(part) ==
    {strip(Get(part, key).v) :
        key \in {key \in {"text", "message", "title"} :
                    IsStr(Get(part, key)) /\ strip(Get(part, key).v) # <<>>}}

\* C17 as claimed: an image asset block whose source pointer matches no file
\* of the export directory has, as parsed and after load() has enriched it,
\* is_resolved false and asset_url null, the text "[Image]", and no asset
\* registered under its id.
C17_UnresolvedImagePlaceholder ==
    \A image \in UnresolvedImages :
        /\ NotServable(image)
        /\ image.block.text = <<"[Image]">>

\* C17, amended: such a block has is_resolved false and asset_url null, no
\* asset is registered under its id, and its text is not empty: the text,
\* message or title the part carries, and the placeholder "[Image]" when it
\* carries none.
C17_UnresolvedImageNeverServable ==
    \A image \in UnresolvedImages :
        /\ NotServable(image)
        /\ image.block.text # <<>>
        /\ \E part \in RawPartsOf(image) :
              IF OwnTexts(part) = {} THEN image.block.text = <<"[Image]">>
              ELSE image.block.text \in OwnTexts(part)

\* load() has enriched an image block that no file of a directory with other
\* media matches: it has its asset id, the placeholder as text, and the
\* registry is empty.
C17_Witness ==
    /\ loadPc = "idle" /\ loaded = "done"
    /\ export_media # {}
    /\ DOMAIN _asset_registry.items = {}
    /\ \E image \in UnresolvedImages :
          /\ Get(AssetData(image.block), "asset_id") # JNull
          /\ Get(AssetData(image.block), "is_resolved") = JBool(FALSE)
          /\ image.block.text = <<"[Image]">>

-----------------------------------------------------------------------------
(* Properties of the service, under SpecServing.                           *)

\* C18: once load() has completed, every step other than the start of a new
\* load() leaves the loaded conversations (with their message order and
\* blocks), both lookup maps and the asset registry as they are; the rows of
\* the favorites table change in a step of toggle_favorite only, and every
\* toggle_favorite that returns has changed them.
C18_ServingLeavesLoadedState ==
    [][(LoadCompleted /\ ~LoadConversations) =>
          /\ UNCHANGED structureVars
          /\ favorites' # favorites => response'.op = "toggle_favorite"
          /\ ToggleFavorite => favorites' # favorites]_vars

\* toggle_favorite has made a favorite of a conversation of a loaded export
\* with a registered asset, and another request was served since.
C18_Witness ==
    /\ LoadCompleted
    /\ response.op = "get_messages" /\ response.result # None
    /\ favorite_keys = {<<"chatgpt", "abc">>}
    /\ conversations.items # <<>>
    /\ DOMAIN _asset_registry.items # {}

-----------------------------------------------------------------------------
(* cli._detect_provider                                                    *)

_detect_provider(item) ==
    IF "mapping" \in DOMAIN item.v /\ "current_node" \in DOMAIN item.v THEN JId("chatgpt")
    ELSE IF "uuid" \in DOMAIN item.v /\ "chat_messages" \in DOMAIN item.v THEN JId("claude")
    ELSE None

-----------------------------------------------------------------------------
(* Specification of one call of _detect_provider.                          *)

\* The first item of an export: an object with any of the keys that tell the
\* providers apart, and of the keys that do not.
ItemKeys ==
    {"mapping", "current_node", "uuid", "chat_messages", "chunkedPrompt", "chunks", "foo"}
ItemValue(key) ==
    CASE key = "mapping" -> JDict(<<>>)
      [] key = "chat_messages" -> JList(<<>>)
      [] key = "chunkedPrompt" ->
            JDict([chunks |-> JList(<<JDict([text |-> JStr(Hello_world),
                                             role |-> JId("user")])>>)])
      [] key = "chunks" -> JList(<<>>)
      [] OTHER -> JId("abc")
FirstItems == {JDict([key \in keys |-> ItemValue(key)]) : keys \in SUBSET ItemKeys}

InitDetect ==
    /\ first_item \in FirstItems
    /\ detected = JNull
    /\ detectState = "call"
    /\ ChunkIdle /\ ParseIdle /\ FilesIdle /\ MergeIdle /\ Constructed
    /\ ExportIdle /\ CallIdle /\ StoreIdle

DetectProvider ==
    /\ detectState = "call"
    /\ detected' = _detect_provider(first_item)
    /\ detectState' = "returned"
    /\ UNCHANGED <<first_item, chunkVars, parseVars, fileVars, mergeVars, serviceVars>>
    /\ UNCHANGED <<exportVars, callVars, connections>>

NextDetect == DetectProvider

SpecDetect == InitDetect /\ [][NextDetect]_vars

\* C20: _detect_provider returns chatgpt for an item with both `mapping` and
\* `current_node`, claude for one with both `uuid` and `chat_messages`,
\* gemini for one with `chunkedPrompt`, and None for any other item.
C20_ProviderDetected ==
    detectState = "returned" =>
        /\ {"mapping", "current_node"} \subseteq DOMAIN first_item.v
              => detected = JId("chatgpt")
        /\ (/\ {"uuid", "chat_messages"} \subseteq DOMAIN first_item.v
            /\ ~({"mapping", "current_node"} \subseteq DOMAIN first_item.v))
              => detected = JId("claude")
        /\ (/\ "chunkedPrompt" \in DOMAIN first_item.v
            /\ ~({"mapping", "current_node"} \subseteq DOMAIN first_item.v)
            /\ ~({"uuid", "chat_messages"} \subseteq DOMAIN first_item.v))
              => detected = JId("gemini")
        /\ (/\ "chunkedPrompt" \notin DOMAIN first_item.v
            /\ ~({"mapping", "current_node"} \subseteq DOMAIN first_item.v)
            /\ ~({"uuid", "chat_messages"} \subseteq DOMAIN first_item.v))
              => detected = None

-----------------------------------------------------------------------------
(* models.MessageRecord.iter_visible_blocks and the exporter               *)

THINKING_BLOCK_TYPES == {"thinking", "thoughts", "reasoning_recap"}
TOOL_BLOCK_TYPES == {"tool_use", "tool_result", "execution_output", "tether_browsing_display"}
ATTACHMENT_BLOCK_TYPES ==
    {"image_asset_pointer", "audio_asset_pointer", "real_time_user_audio_video_asset_pointer",
     "attachment", "file", "inline_image", "inline_audio", "drive_document", "drive_video"}
SYSTEM_BLOCK_TYPES == {"system_error"}

\* The flags of a view: include_system, include_tool, include_thinking,
\* include_attachments.
Flags(system, tool, thinking, attachments) ==
    [include_system |-> system, include_tool |-> tool,
     include_thinking |-> thinking, include_attachments |-> attachments]

\* A view that lets every block through.
NothingSuppressed(role, block_type, flags) == FALSE

\* The test of the loop body: the block is skipped.
BlockSuppressed(role, block_type, flags) ==
    \/ ~flags.include_thinking /\ block_type \in THINKING_BLOCK_TYPES
    \/ ~flags.include_tool /\ (block_type \in TOOL_BLOCK_TYPES \/ role = "tool")
    \/ ~flags.include_attachments /\ block_type \in ATTACHMENT_BLOCK_TYPES
    \/ ~flags.include_system /\ block_type \in SYSTEM_BLOCK_TYPES

iter_visible_blocks(message, flags) ==
    IF ~flags.include_system /\ message.role = "system" THEN <<>>
    ELSE SelectSeq(message.content,
                   LAMBDA block : ~BlockSuppressed(message.role, block.type, flags))

\* exporter._visible_message_text
_visible_message_text(message, flags) ==
    IF ~flags.include_system /\ message.role = "system" THEN <<>>
    ELSE IF ~flags.include_tool /\ message.role = "tool" THEN <<>>
    ELSE LET visible == iter_visible_blocks(message, flags)
             texts == [i \in DOMAIN visible |->
                          IF strip(visible[i].text) = <<>> THEN <<>>
                          ELSE IF visible[i].type \in {"text", "code"}
                          THEN strip(visible[i].text)
                          ELSE <<"**[", visible[i].type, "]**", "\n\n">>
                               \o strip(visible[i].text)]
         IN strip(join(<<"\n\n">>, NonEmpty(texts)))

\* exporter._iter_messages: a section for every message with a visible text
\* (the heading renders the time of the message for display and its role).
_iter_messages(conversation, flags) ==
    LET sections == [i \in DOMAIN conversation.messages |->
                        LET text == _visible_message_text(conversation.messages[i], flags)
                        IN IF text = <<>> THEN <<>>
                           ELSE <<"## ", ToString(conversation.messages[i].created), " - ",
                                  conversation.messages[i].role, "\n\n">> \o text]
    IN NonEmpty(sections)

\* exporter._file_hash: the first 12 digits of the SHA-1 of the id, a name
\* that differs for the ids that differ.
_file_hash(conversation_id) == "sha1(" \o conversation_id \o ")"

\* exporter._file_name: a name is the sequence of its parts, its suffix last.
_file_name(conversation) ==
    <<ToString(DayOf(conversation.created)), "-", _file_hash(conversation.id), ".md">>

\* The payload export_conversation writes.
Payload(conversation, flags) ==
    [title |-> title_str(conversation),
     provider |-> conversation.provider,
     id |-> conversation.id,
     created |-> conversation.created,
     open_url |-> open_url(conversation),
     sections |-> _iter_messages(conversation, flags)]

-----------------------------------------------------------------------------
(* The export directory.  A path is the sequence of the names below        *)
(* output_dir, a name the sequence of its parts; a directory tree is       *)
(* [exists, dirs, files]: whether output_dir exists, the paths of the      *)
(* directories below it, and the content of every file below it.           *)

NoDirectory == [exists |-> FALSE, dirs |-> {}, files |-> <<>>]

\* path.suffix
Suffixes == {".md", ".txt", ".json"}
suffix(path) ==
    LET name == path[Len(path)]
    IN IF Len(name) > 1 /\ name[Len(name)] \in Suffixes THEN name[Len(name)] ELSE ""

\* path.is_relative_to(directory)
is_relative_to(path, directory) == IsPrefix(directory, path)

\* mkdir(parents=True, exist_ok=True)
Parents(path) == {SubSeq(path, 1, k) : k \in 1..(Len(path) - 1)}
mkdir(tree, directory) ==
    [tree EXCEPT !.exists = TRUE, !.dirs = @ \cup Parents(directory) \cup {directory}]

\* write_text
write_text(tree, path, payload) ==
    [tree EXCEPT !.files = [q \in DOMAIN @ \cup {path} |-> IF q = path THEN payload ELSE @[q]]]

\* any(dir_path.iterdir())
HasEntries(tree, directory) ==
    \E q \in DOMAIN tree.files \cup tree.dirs :
        Len(q) = Len(directory) + 1 /\ IsPrefix(directory, q)

-----------------------------------------------------------------------------
(* cli._cmd_export                                                         *)

\* A clean that takes every file for a file of the provider.
EveryFileOfProvider(tree, path, provider_filter) == TRUE

\* is_provider_file: the file bears the prefix of the provider, or lies in
\* the directory of the provider.
is_provider_file(tree, path, provider_filter) ==
    \/ StartsWith(path[Len(path)], <<provider_filter, "--">>)
    \/ /\ <<<<provider_filter>>>> \in tree.dirs \cup DOMAIN tree.files
       /\ is_relative_to(path, <<<<provider_filter>>>>)

\* The files the first loop of the clean unlinks.
Unlinked(tree, provider_filter) ==
    {path \in DOMAIN tree.files :
        /\ suffix(path) \in {".md", ".txt"}
        /\ provider_filter = "all" \/ is_provider_file(tree, path, provider_filter)}

\* The second loop: the directories from the deepest up, each removed when it
\* has no entry left.
RECURSIVE RemoveEmpty(_, _)
RemoveEmpty(tree, depth) ==
    IF depth = 0 THEN tree
    ELSE RemoveEmpty([tree EXCEPT !.dirs = {d \in @ : Len(d) # depth \/ HasEntries(tree, d)}],
                     depth - 1)
MaxDepth(tree) ==
    LET depths == {0} \cup {Len(d) : d \in tree.dirs}
    IN CHOOSE depth \in depths : \A other \in depths : other <= depth

\* The `if args.clean:` block.
Clean(tree, provider_filter) ==
    IF ~tree.exists THEN tree
    ELSE LET unlinked == [tree EXCEPT !.files =
                            [q \in DOMAIN @ \ Unlinked(tree, provider_filter) |-> @[q]]]
         IN RemoveEmpty(unlinked, MaxDepth(unlinked))

\* export_conversation
export_conversation(tree, conversation, flags) ==
    write_text(mkdir(tree, <<<<conversation.provider>>>>),
               <<<<conversation.provider>>, _file_name(conversation)>>,
               Payload(conversation, flags))

RECURSIVE ExportAll(_, _, _)
ExportAll(tree, exported, flags) ==
    IF exported = <<>> THEN tree
    ELSE ExportAll(export_conversation(tree, Head(exported), flags), Tail(exported), flags)

\* The conversations that pass the provider filter.
Filtered(provider_filter) ==
    IF provider_filter = "all" THEN conversations.items
    ELSE SelectSeq(conversations.items, LAMBDA c : c.provider = provider_filter)

ExportFlags ==
    Flags(~args.exclude_system, ~args.exclude_tool,
          ~args.exclude_thinking, ~args.exclude_attachments)

CmdExport ==
    /\ LoadCompleted
    /\ exit_code = None
    /\ LET cleaned == IF args.clean THEN Clean(output_dir, args.provider) ELSE output_dir
       IN /\ removed_count' =
                IF args.clean /\ output_dir.exists
                THEN Cardinality(Unlinked(output_dir, args.provider)) ELSE 0
          /\ IF Filtered(args.provider) = <<>>
             THEN output_dir' = cleaned /\ exit_code' = JNum(1)
             ELSE /\ output_dir' = ExportAll(cleaned, Filtered(args.provider), ExportFlags)
                  /\ exit_code' = JNum(0)
    /\ UNCHANGED <<args, chunkVars, parseVars, fileVars, mergeVars, serviceVars>>
    /\ UNCHANGED <<detectVars, callVars, connections>>

-----------------------------------------------------------------------------
(* Specification of the export command: the service is loaded, then        *)
(* _cmd_export runs once over an export directory left by earlier runs.    *)

\* Files of earlier runs: exports in the directory of their provider, in a
\* directory below it, and in output_dir itself under a name with the prefix
\* of the provider; a file that is no export; a file with the prefix of one
\* provider in the directory of another; the export of an earlier run of a
\* conversation that is exported again.
StaleName == <<"2001-01-01", "-", "aaaabbbbcccc", ".md">>
EarlierFiles ==
    {<<<<"claude">>, StaleName>>,
     <<<<"chatgpt">>, StaleName>>,
     <<<<"claude">>, <<"sub">>, <<"old", ".txt">>>>,
     <<<<"claude", "--", "legacy", ".md">>>>,
     <<<<"chatgpt", "--", "legacy", ".txt">>>>,
     <<<<"claude">>, <<"notes", ".json">>>>,
     <<<<"chatgpt">>, <<"claude", "--", "mixed", ".md">>>>,
     <<<<"claude">>, <<"0", "-", _file_hash("abc"), ".md">>>>}
EarlierDirs == {{}, {<<<<"gemini">>>>}}
Stale == [title |-> "stale"]
Directories ==
    {NoDirectory}
    \cup {[exists |-> TRUE,
           dirs |-> empty \cup UNION {Parents(path) : path \in paths},
           files |-> [path \in paths |-> Stale]] :
            paths \in SUBSET EarlierFiles, empty \in EarlierDirs}

\* The provider filter is one of the choices of the command line.
ExportArgs ==
    [provider : {"chatgpt", "claude", "all"}, clean : BOOLEAN,
     exclude_system : {FALSE}, exclude_tool : BOOLEAN,
     exclude_thinking : {FALSE}, exclude_attachments : {FALSE}]

ExportChatgptFiles ==
    {JList(<<LoaderChatgptConversation("c1", 2), LoaderChatgptConversation("abc", 1)>>)}

InitExport ==
    /\ export_files \in [chatgpt : ExportChatgptFiles, claude : ServiceClaudeFiles,
                         gemini : {Absent}]
    /\ export_media = {}
    /\ Constructed
    /\ ChunkIdle /\ ParseIdle /\ MergeIdle
    /\ DetectIdle /\ CallIdle /\ StoreIdle
    /\ output_dir \in Directories
    /\ args \in ExportArgs
    /\ removed_count = 0
    /\ exit_code = None

NextExport == Load \/ CmdExport

SpecExport == InitExport /\ [][NextExport]_vars

-----------------------------------------------------------------------------
(* Properties of the export command, under SpecExport.                     *)

\* An export file, and an export file that belongs to a provider: it lies
\* under the directory of the provider or its name has the provider's prefix.
ExportFile(path) == suffix(path) \in {".md", ".txt"}
BelongsTo(path, p) ==
    \/ Len(path) > 1 /\ path[1] = <<p>>
    \/ StartsWith(path[Len(path)], <<p, "--">>)

\* The paths of the exports of the loaded conversations of a provider.
ExportedPaths(p) ==
    {<<<<p>>, _file_name(conversations.items[i])>> :
        i \in {j \in DOMAIN conversations.items : conversations.items[j].provider = p}}

\* C21: _cmd_export with clean set and one provider as the filter removes the
\* export files of earlier runs that belong to the provider, leaves the
\* export files of every other provider in place, and afterwards the
\* directory of the provider holds the exports of the provider's loaded
\* conversations.
C21_CleanRemovesOnlyProviderFiles ==
    [][(CmdExport /\ args.clean /\ args.provider \in Providers) =>
          /\ \A path \in DOMAIN output_dir.files :
                (ExportFile(path) /\ BelongsTo(path, args.provider)) =>
                    \/ path \notin DOMAIN output_dir'.files
                    \/ /\ path \in ExportedPaths(args.provider)
                       /\ output_dir'.files[path] # Stale
          /\ \A path \in DOMAIN output_dir.files :
                (/\ ExportFile(path)
                 /\ ~BelongsTo(path, args.provider)
                 /\ \E other \in Providers \ {args.provider} : BelongsTo(path, other)) =>
                    /\ path \in DOMAIN output_dir'.files
                    /\ output_dir'.files[path] = output_dir.files[path]
          /\ \A i \in DOMAIN conversations.items :
                conversations.items[i].provider = args.provider =>
                    LET path == <<<<args.provider>>, _file_name(conversations.items[i])>>
                    IN /\ path \in DOMAIN output_dir'.files
                       /\ output_dir'.files[path].provider = args.provider
                       /\ output_dir'.files[path].id = conversations.items[i].id]_vars

\* A clean export of the Claude conversations has run over a directory with
\* stale files of Claude (in its directory, below it, under its prefix, and
\* the earlier export of the conversation) and of ChatGPT: the first are
\* gone, the second are there, and the conversation is exported anew.
C21_Witness ==
    /\ exit_code = JNum(0) /\ args.clean /\ args.provider = "claude"
    /\ removed_count >= 4
    /\ <<<<"claude">>, StaleName>> \notin DOMAIN output_dir.files
    /\ <<<<"claude">>, <<"sub">>>> \notin output_dir.dirs
    /\ <<<<"chatgpt">>, StaleName>> \in DOMAIN output_dir.files
    /\ <<<<"chatgpt", "--", "legacy", ".txt">>>> \in DOMAIN output_dir.files
    /\ <<<<"claude">>, <<"notes", ".json">>>> \in DOMAIN output_dir.files
    /\ <<<<"claude">>, <<"0", "-", _file_hash("abc"), ".md">>>> \in DOMAIN output_dir.files
    /\ output_dir.files[<<<<"claude">>, <<"0", "-", _file_hash("abc"), ".md">>>>].id = "abc"

-----------------------------------------------------------------------------
(* Specification of one call of _build_active_branch_path.                 *)

PathNodes == {"n1", "n2", "n3"}
PathParents == {JNull, JId("gone")} \cup {JId(n) : n \in PathNodes}
PathMessage(n, create_time) ==
    RawMessage(n, "user", create_time, TextContent(real_user_text), NoMetadata)

\* (W) Any parent pointers (chains, branches, cycles, pointers to a missing
\* node) and a current_node that is or is not a node of the mapping.
WalkedCalls ==
    {[mapping |-> JDict([n \in PathNodes |-> Node(parent[n], PathMessage(n, JNum(1)))]),
      current_node |-> current_node] :
        parent \in [PathNodes -> PathParents], current_node \in PathParents}

\* (F) No current_node, or one that is no node of the mapping, over nodes
\* without a message and with a message created at a time, at the same time
\* as another, or without a creation time; and the empty mapping.
PathMessages(n) == {JNull} \cup {PathMessage(n, create_time) : create_time \in {JNull, JNum(1), JNum(2)}}
FallbackCalls ==
    {[mapping |-> JDict([n \in PathNodes |-> Node(JNull, message[n])]),
      current_node |-> current_node] :
        message \in {f \in [PathNodes -> UNION {PathMessages(n) : n \in PathNodes}] :
                        \A n \in PathNodes : f[n] \in PathMessages(n)},
        current_node \in {JNull, JId("gone"), JId(""), JNum(5)}}
    \cup {[mapping |-> JDict(<<>>), current_node |-> current_node] :
            current_node \in {JNull, JId("n1")}}

InitBranchPath ==
    /\ \/ call \in WalkedCalls
       \/ call \in FallbackCalls
    /\ returned = None
    /\ ChunkIdle /\ ParseIdle /\ FilesIdle /\ MergeIdle /\ Constructed
    /\ DetectIdle /\ ExportIdle /\ StoreIdle

BuildActiveBranchPath ==
    /\ returned = None
    /\ returned' = _build_active_branch_path(call.mapping, call.current_node)
    /\ UNCHANGED <<call, chunkVars, parseVars, fileVars, mergeVars, serviceVars>>
    /\ UNCHANGED <<detectVars, exportVars, connections>>

NextBranchPath == BuildActiveBranchPath

SpecBranchPath == InitBranchPath /\ [][NextBranchPath]_vars

\* The nodes of the mapping of the call that carry a message, and the
\* creation time of the message of a node.
CurrentNodeFound ==
    /\ Truthy(call.current_node) /\ IsId(call.current_node)
    /\ call.current_node.v \in DOMAIN call.mapping.v
MessageNodes == {n \in DOMAIN call.mapping.v : IsDict(Get(call.mapping.v[n], "message"))}
CreateTimeOf(n) == Get(Get(call.mapping.v[n], "message"), "create_time")
Precedes(n, m) ==
    (IsNum(CreateTimeOf(n)) /\ IsNum(CreateTimeOf(m))) =>
        \/ CreateTimeOf(n).v < CreateTimeOf(m).v
        \/ CreateTimeOf(n).v = CreateTimeOf(m).v /\ NodeRank(n) < NodeRank(m)

\* C22: when current_node is missing or is no key of mapping,
\* _build_active_branch_path returns every node that carries a message, each
\* once, by ascending create_time of the message, and by node id where the
\* times are equal.
C22_FallbackReturnsEveryMessageNode ==
    (returned # None /\ ~CurrentNodeFound) =>
        /\ ~returned.raised
        /\ Range(returned.path) = MessageNodes
        /\ Len(returned.path) = Cardinality(MessageNodes)
        /\ \A i, j \in DOMAIN returned.path :
              i < j => Precedes(returned.path[i], returned.path[j])

-----------------------------------------------------------------------------
(* Specification of _build_active_branch_path run statement by statement:  *)
(* the call holds its arguments and its locals cursor, path and seen.      *)

\* (J) A chain with a node that is no object, and one with a parent pointer
\* that is a list.
JunkCalls ==
    {[mapping |-> JDict([n \in PathNodes |->
                            IF n = "n1" THEN JId("junk")
                            ELSE Node(JId(NodeNames[NodeRank(n) - 1]), PathMessage(n, JNum(1)))]),
      current_node |-> JId("n3")],
     [mapping |-> JDict([n \in PathNodes |->
                            Node(IF n = "n1" THEN JList(<<JId("n2")>>)
                                 ELSE JId(NodeNames[NodeRank(n) - 1]),
                                 PathMessage(n, JNum(1)))]),
      current_node |-> JId("n3")]}

Frame(arguments) ==
    [mapping |-> arguments.mapping, current_node |-> arguments.current_node,
     cursor |-> JNull, path |-> <<>>, seen |-> {}, pc |-> "enter"]

InitWalk ==
    /\ \/ call \in {Frame(arguments) : arguments \in WalkedCalls}
       \/ call \in {Frame(arguments) : arguments \in FallbackCalls}
       \/ call \in {Frame(arguments) : arguments \in JunkCalls}
    /\ returned = None
    /\ ChunkIdle /\ ParseIdle /\ FilesIdle /\ MergeIdle /\ Constructed
    /\ DetectIdle /\ ExportIdle /\ StoreIdle

WalkUnchanged ==
    /\ UNCHANGED <<chunkVars, parseVars, fileVars, mergeVars, serviceVars>>
    /\ UNCHANGED <<detectVars, exportVars, connections>>

\* `if not mapping`, `if current_node and current_node in mapping`, and the
\* fallback, which has no loop over parent pointers.
WalkEnter ==
    /\ call.pc = "enter"
    /\ IF /\ Truthy(call.mapping)
          /\ Truthy(call.current_node) /\ IsId(call.current_node)
          /\ call.current_node.v \in DOMAIN call.mapping.v
       THEN /\ call' = [call EXCEPT !.cursor = call.current_node, !.pc = "while"]
            /\ UNCHANGED returned
       ELSE /\ call' = [call EXCEPT !.pc = "done"]
            /\ returned' = _build_active_branch_path(call.mapping, call.current_node)
    /\ WalkUnchanged

\* The test of the while loop.
WalkOn ==
    /\ Truthy(call.cursor) /\ IsId(call.cursor)
    /\ call.cursor.v \in DOMAIN call.mapping.v
    /\ call.cursor.v \notin call.seen

\* One pass of the body of the loop; mapping[cursor].get raises on a node
\* that is no object, after the node was added to the path.
WalkStep ==
    /\ call.pc = "while"
    /\ WalkOn
    /\ IF IsDict(call.mapping.v[call.cursor.v])
       THEN /\ call' = [call EXCEPT !.seen = @ \cup {call.cursor.v},
                                    !.path = Append(@, call.cursor.v),
                                    !.cursor = Get(call.mapping.v[call.cursor.v], "parent")]
            /\ UNCHANGED returned
       ELSE /\ call' = [call EXCEPT !.seen = @ \cup {call.cursor.v},
                                    !.path = Append(@, call.cursor.v),
                                    !.pc = "done"]
            /\ returned' = [raised |-> TRUE, path |-> Reverse(call.path)]
    /\ WalkUnchanged

\* The loop ends (`cursor in mapping` raises on a cursor that cannot be
\* hashed), the path is reversed and returned.
WalkReturn ==
    /\ call.pc = "while"
    /\ ~WalkOn
    /\ call' = [call EXCEPT !.pc = "done"]
    /\ returned' = [raised |-> Truthy(call.cursor) /\ Unhashable(call.cursor),
                    path |-> Reverse(call.path)]
    /\ WalkUnchanged

NextWalk == WalkEnter \/ WalkStep \/ WalkReturn

SpecWalk == InitWalk /\ [][NextWalk]_vars

\* The interpreter goes on with a call that has a statement to run.
SpecWalkFair == SpecWalk /\ WF_vars(NextWalk)

\* The parent pointer of a node of the mapping of the call.
ParentPointer(n) == Get(call.mapping.v[n], "parent")

\* C30: _build_active_branch_path terminates for every mapping, also when
\* the parent pointers form a cycle or point to a node that is missing; a
\* path returned for a current_node of the mapping holds no node twice, ends
\* with current_node, and the parent pointer of each of its elements is the
\* element before it.
C30_WalkTerminatesWithParentChain ==
    /\ <>(call.pc = "done" /\ returned # None)
    /\ [](( /\ returned # None /\ ~returned.raised /\ CurrentNodeFound) =>
            /\ returned.path # <<>>
            /\ returned.path[Len(returned.path)] = call.current_node.v
            /\ \A i, j \in DOMAIN returned.path :
                  i # j => returned.path[i] # returned.path[j]
            /\ \A i \in DOMAIN returned.path :
                  i > 1 => ParentPointer(returned.path[i]) = JId(returned.path[i - 1]))

\* The walk over a cycle of three nodes has returned the three nodes, and so
\* has the walk over a chain whose root points to a missing node.
C30_Witness ==
    /\ call.pc = "done" /\ returned # None /\ CurrentNodeFound
    /\ Len(returned.path) = 3
    /\ ParentPointer(returned.path[1]) \in {JId(call.current_node.v), JId("gone")}

-----------------------------------------------------------------------------
(* The `data` sidecar of the blocks that the parsers build.                *)

\* A string of n characters.
Xs(n) == [i \in 1..n |-> "x"]

\* Lengths at and around the two thresholds of _lightweight_metadata.
SidecarLengths == {1, ShortTextLimit, ShortTextLimit + 1, LongTextLimit, LongTextLimit + 1}
SidecarStrings == {JStr(Xs(n)) : n \in SidecarLengths}
SidecarValues == SidecarStrings \cup {JNum(7), JBool(TRUE)}

\* Raw payloads: a part of a tree-format message, an attachment and a file of
\* a Claude message, and Gemini chunks with an inline payload or a Drive
\* document.  `url` and `file_name` are allow-listed keys, `note` is not.
SidecarCalls ==
    {[fn |-> "_parse_chatgpt_part",
      payload |-> JDict([content_type |-> JId("image_asset_pointer"), url |-> u, note |-> v])] :
        u \in SidecarValues, v \in SidecarValues}
    \cup {[fn |-> "_build_claude_attachment_block",
           payload |-> JDict([file_name |-> f, note |-> v, extracted_content |-> JStr(<<"x">>)])] :
             f \in SidecarStrings, v \in SidecarValues}
    \cup {[fn |-> "_build_claude_file_block",
           payload |-> JDict([url |-> u, note |-> v])] :
             u \in SidecarStrings, v \in SidecarValues}
    \cup {[fn |-> "_parse_gemini_chunk",
           payload |-> JDict([inlineData |-> JDict([mimeType |-> JStr(<<"image/", "png">>),
                                                    data |-> d])])] :
             d \in SidecarStrings}
    \cup {[fn |-> "_parse_gemini_chunk",
           payload |-> JDict([driveDocument |-> JDict([id |-> JStr(<<"x">>), note |-> v])])] :
             v \in SidecarValues}

\* The blocks the called parser returns for the payload.
SidecarBlocks(c) ==
    IF c.fn = "_parse_chatgpt_part" THEN _parse_chatgpt_part("multimodal_text", c.payload)
    ELSE IF c.fn = "_build_claude_attachment_block"
    THEN <<_build_claude_attachment_block(c.payload, 0)>>
    ELSE IF c.fn = "_build_claude_file_block" THEN <<_build_claude_file_block(c.payload, 0)>>
    ELSE _parse_gemini_chunk(c.payload)

InitSidecar ==
    /\ call \in SidecarCalls
    /\ returned = None
    /\ ChunkIdle /\ ParseIdle /\ FilesIdle /\ MergeIdle /\ Constructed
    /\ DetectIdle /\ ExportIdle /\ StoreIdle

BuildSidecar ==
    /\ returned = None
    /\ returned' = [blocks |-> SidecarBlocks(call)]
    /\ UNCHANGED <<call, chunkVars, parseVars, fileVars, mergeVars, serviceVars>>
    /\ UNCHANGED <<detectVars, exportVars, connections>>

NextSidecar == BuildSidecar

SpecSidecar == InitSidecar /\ [][NextSidecar]_vars

\* The length bound of a key, and the sidecar of the one returned block.
BoundOf(key) == IF key \in preserve_long_text_keys THEN LongTextLimit ELSE ShortTextLimit
SidecarOf == returned.blocks[1].data
\* The payload whose keys the parser copies into the sidecar.
CopiedPayload ==
    IF call.fn = "_parse_gemini_chunk"
    THEN (IF "inlineData" \in DOMAIN call.payload.v
          THEN call.payload.v.inlineData ELSE call.payload.v.driveDocument)
    ELSE call.payload
\* The keys a parser sets itself after the copy.
SetByParser ==
    IF call.fn = "_parse_chatgpt_part" THEN {"asset"}
    ELSE IF call.fn = "_build_claude_attachment_block"
    THEN {"file_name", "file_type", "attachment_index", "file_size",
          "has_extracted_content", "attachment_label", "extracted_content_length"}
    ELSE IF call.fn = "_build_claude_file_block" THEN {"file_name", "file_index"}
    ELSE {}

\* C24 (as stated): every string of the sidecar of a block, whichever parser
\* built it, is no longer than the bound of its key, a string of the payload
\* longer than the bound is stored cut to the bound, and numbers and booleans
\* are stored unchanged.
C24_EverySidecarStringBounded ==
    returned # None =>
        /\ \A k \in DOMAIN SidecarOf.v :
              IsStr(SidecarOf.v[k]) => Len(SidecarOf.v[k].v) <= BoundOf(k)
        /\ \A k \in (DOMAIN CopiedPayload.v \ ContentKeys) \ SetByParser :
              LET value == CopiedPayload.v[k]
              IN /\ value.t \in {"num", "bool"} => Get(SidecarOf, k) = value
                 /\ IsStr(value) => Get(SidecarOf, k) = JStr(Take(value.v, BoundOf(k)))

\* C24 (amended): in a sidecar that _lightweight_metadata built, every string
\* it copied is bounded: a string longer than 200 characters is left out,
\* except under an allow-listed key, where it is cut to 2000 characters;
\* shorter strings, numbers and booleans are stored unchanged.
C24_LightweightStringsBounded ==
    (returned # None /\ call.fn # "_parse_gemini_chunk") =>
        \A k \in (DOMAIN CopiedPayload.v \ ContentKeys) \ SetByParser :
            LET value == CopiedPayload.v[k]
            IN /\ value.t \in {"num", "bool"} => Get(SidecarOf, k) = value
               /\ (IsStr(value) /\ k \in preserve_long_text_keys) =>
                     Get(SidecarOf, k) = JStr(Take(value.v, LongTextLimit))
               /\ (IsStr(value) /\ k \notin preserve_long_text_keys) =>
                     IF Len(value.v) <= ShortTextLimit
                     THEN Get(SidecarOf, k) = value
                     ELSE k \notin DOMAIN SidecarOf.v

\* A part with a `url` and a `note` both over their bounds was parsed: the
\* url is stored cut, the note is not stored.
C24_Witness ==
    /\ returned # None /\ call.fn = "_parse_chatgpt_part"
    /\ call.payload.v.url = JStr(Xs(LongTextLimit + 1))
    /\ call.payload.v.note = JStr(Xs(ShortTextLimit + 1))
    /\ SidecarOf.v.url = JStr(Xs(LongTextLimit))
    /\ "note" \notin DOMAIN SidecarOf.v

-----------------------------------------------------------------------------
(* De-duplication of the blocks of a tree-format message.                  *)

PointerPart(pointer) ==
    JDict([content_type |-> JId("image_asset_pointer"), asset_pointer |-> JId(pointer)])

\* Parts of a multimodal content: texts that differ in blanks or in a
\* citation marker only, a blank text, and image parts with one of two
\* pointers or with none.
DedupeParts ==
    {JStr(<<"a">>), JStr(<<"a", " ", "b">>), JStr(<<"a", " ", " ", "b">>),
     JStr(<<"a", CitationMarker>>),
     PointerPart("file-service://file-abc"), PointerPart("file-service://file-xyz"),
     JDict([content_type |-> JId("image_asset_pointer")])}

MaxDedupeParts == 3

DedupeCalls ==
    {[content |-> JDict([content_type |-> JId("multimodal_text"), parts |-> JList(ps)]),
      metadata |-> NoMetadata] : ps \in SeqsUpTo(DedupeParts, MaxDedupeParts)}

InitDedupe ==
    /\ call \in DedupeCalls
    /\ returned = None
    /\ ChunkIdle /\ ParseIdle /\ FilesIdle /\ MergeIdle /\ Constructed
    /\ DetectIdle /\ ExportIdle /\ StoreIdle

ParseChatgptContent ==
    /\ returned = None
    /\ returned' = [blocks |-> _parse_chatgpt_content(call.content, call.metadata)]
    /\ UNCHANGED <<call, chunkVars, parseVars, fileVars, mergeVars, serviceVars>>
    /\ UNCHANGED <<detectVars, exportVars, connections>>

NextDedupe == ParseChatgptContent

SpecDedupe == InitDedupe /\ [][NextDedupe]_vars

\* The key of a block of the message: its type, its text with runs of blanks
\* squashed, and its source pointer when it has one.
PointerOf(block) ==
    LET asset == Get(block.data, "asset")
    IN IF IsDict(asset) /\ Truthy(Get(asset, "source_pointer")) THEN Get(asset, "source_pointer")
       ELSE IF Truthy(Get(block.data, "asset_pointer")) THEN Get(block.data, "asset_pointer")
       ELSE None
KeyOf(block) ==
    [type |-> block.type, text |-> SquashBlanks(strip(block.text)), pointer |-> PointerOf(block)]

\* The blocks of the parts before de-duplication, with their rendered text,
\* those with an empty rendered text left out.
RenderedParts ==
    LET raw == PartsBlocks("multimodal_text", call.content.v.parts.v)
        rendered == [i \in DOMAIN raw |->
                        ContentBlockWith(raw[i].type,
                                         strip(_apply_chatgpt_content_references(raw[i].text,
                                                                                 call.metadata)),
                                         raw[i].data)]
    IN SelectSeq(rendered, LAMBDA b : b.text # <<>>)

\* The positions of RenderedParts that no earlier position shares its key
\* with, and the k-th of them in ascending order.
FirstOfKey == {i \in DOMAIN RenderedParts :
                  \A j \in 1..(i - 1) : KeyOf(RenderedParts[j]) # KeyOf(RenderedParts[i])}
NthFirst(k) == CHOOSE i \in FirstOfKey : Cardinality({j \in FirstOfKey : j < i}) = k - 1

\* C25: no two blocks of a message of the tree-format parser share a key
\* (type, whitespace-normalised rendered text, source pointer if present);
\* of the blocks with an equal key the first is kept, the kept blocks keep
\* their order, and blocks that differ in the pointer only are all kept.
C25_BlocksUniqueByKey ==
    returned # None =>
        /\ \A i, j \in DOMAIN returned.blocks :
              i # j => KeyOf(returned.blocks[i]) # KeyOf(returned.blocks[j])
        /\ RenderedParts # <<>> =>
              returned.blocks = [k \in 1..Cardinality(FirstOfKey) |-> RenderedParts[NthFirst(k)]]

\* Three image parts, the third with the pointer of the first, and between
\* them one with another pointer: the first two are kept.
C25_Witness ==
    /\ returned # None
    /\ call.content.v.parts.v = <<PointerPart("file-service://file-abc"),
                                  PointerPart("file-service://file-xyz"),
                                  PointerPart("file-service://file-abc")>>
    /\ Len(returned.blocks) = 2
    /\ returned.blocks[1].text = returned.blocks[2].text
    /\ returned.blocks[1].data.v.asset_pointer = JId("file-service://file-abc")
    /\ returned.blocks[2].data.v.asset_pointer = JId("file-service://file-xyz")

-----------------------------------------------------------------------------
(* The bounds of _extract_text.                                            *)

\* A leaf under k lists, and under k dicts that hold it as their `text`.
RECURSIVE NestedInLists(_, _)
NestedInLists(k, leaf) == IF k = 0 THEN leaf ELSE JList(<<NestedInLists(k - 1, leaf)>>)
RECURSIVE NestedInDicts(_, _)
NestedInDicts(k, leaf) == IF k = 0 THEN leaf ELSE JDict([text |-> NestedInDicts(k - 1, leaf)])

Leaf == JStr(<<"leaf">>)
MaxNesting == 7
MaxItems == 14

\* The keys of KeyOrder outside the priority keys, in that order.
OtherKeys == SelectSeq(KeyOrder, LAMBDA k : k \notin Range(priority_keys))

\* A dict that stores under each key the key's own name as a text.
NamedDict(keys) == JDict([k \in keys |-> JStr(<<k>>)])

ExtractCalls ==
    {[kind |-> "lists", n |-> k, value |-> NestedInLists(k, Leaf)] : k \in 0..MaxNesting}
    \cup {[kind |-> "dicts", n |-> k, value |-> NestedInDicts(k, Leaf)] : k \in 0..MaxNesting}
    \cup {[kind |-> "items", n |-> n,
           value |-> JList([i \in 1..n |-> JStr(<<ToString(i)>>)])] : n \in 0..MaxItems}
    \cup {[kind |-> "keys", n |-> Cardinality(keys), value |-> NamedDict(keys)] :
            keys \in SUBSET (Range(OtherKeys) \cup {"text", "url"})}

InitExtract ==
    /\ call \in ExtractCalls
    /\ returned = None
    /\ ChunkIdle /\ ParseIdle /\ FilesIdle /\ MergeIdle /\ Constructed
    /\ DetectIdle /\ ExportIdle /\ StoreIdle

ExtractText ==
    /\ returned = None
    /\ returned' = [text |-> _extract_text(call.value, 0)]
    /\ UNCHANGED <<call, chunkVars, parseVars, fileVars, mergeVars, serviceVars>>
    /\ UNCHANGED <<detectVars, exportVars, connections>>

NextExtract == ExtractText

SpecExtract == InitExtract /\ [][NextExtract]_vars

\* The returned text holds the token.
Returns(token) == token \in Range(returned.text)

\* The keys of the dict of the call in the order the dict holds them, and the
\* position of a key in it.
DictKeys == SelectSeq2(KeyOrder, DOMAIN call.value.v)
PositionIn(keys, key) == CHOOSE i \in DOMAIN keys : keys[i] = key
structural_keys == {"content_type", "type", "role", "status", "recipient", "channel"}

\* The leaf nested deeper than depth 5 is not returned, the one at depth 5
\* or above is; of a list the first 12 items are returned and no other.
DepthAndItemsBounded ==
    /\ call.kind \in {"lists", "dicts"} => (Returns("leaf") <=> call.n <= 5)
    /\ call.kind = "items" => \A i \in 1..call.n : Returns(ToString(i)) <=> i <= 12

\* C27 (as stated): _extract_text returns, with no text from below depth 5,
\* the first 12 items of a list and no other, the first 16 keys of a dict
\* and no other, and nothing stored under a structural key.
C27_FirstSixteenKeysRead ==
    returned # None =>
        /\ DepthAndItemsBounded
        /\ call.kind = "keys" =>
              \A k \in DOMAIN call.value.v :
                  Returns(k) <=> (PositionIn(DictKeys, k) <= 16 /\ k \notin structural_keys)

\* C27 (amended): as above, but of a dict the keys read are the priority
\* keys and, after them, the first six of the dict's other keys, a
\* structural key among the six taking its place without being read.
C27_PriorityKeysThenSixOthers ==
    returned # None =>
        /\ DepthAndItemsBounded
        /\ call.kind = "keys" =>
              LET others == SelectSeq(DictKeys, LAMBDA k : k \notin Range(priority_keys))
              IN \A k \in DOMAIN call.value.v :
                    Returns(k) <=>
                        /\ k \notin structural_keys
                        /\ \/ k \in Range(priority_keys)
                           \/ PositionIn(others, k) <= 6

\* A dict of nine keys, none of them a priority key: the seventh, eighth and
\* ninth are not read.
C27_Witness ==
    /\ returned # None /\ call.kind = "keys"
    /\ DOMAIN call.value.v = Range(OtherKeys)
    /\ returned.text = <<"id", "\n", "language", "\n", "parts", "\n", "thoughts", "\n", "result">>

-----------------------------------------------------------------------------
(* The views of a message: iter_visible_blocks.                            *)

MaxBlocks == 2

\* One block type of each category, and two that belong to none.
ViewTypes == {"text", "thinking", "tool_use", "attachment", "system_error", "grounding"}
ViewRoles == {"user", "assistant", "system", "tool"}
AllFlags == {Flags(s, t, h, a) : s \in BOOLEAN, t \in BOOLEAN, h \in BOOLEAN, a \in BOOLEAN}

\* A message whose i-th block has the i-th type and the text "i".
ViewMessage(role, types) ==
    MessageRecord("m1", "chatgpt", role, 0, JNull, JNull,
                  [i \in DOMAIN types |-> ContentBlock(types[i], <<ToString(i)>>)])

VisibleCalls ==
    {[message |-> ViewMessage(role, types), flags |-> flags] :
        role \in ViewRoles, types \in SeqsUpTo(ViewTypes, MaxBlocks), flags \in AllFlags}

InitVisible ==
    /\ call \in VisibleCalls
    /\ returned = None
    /\ ChunkIdle /\ ParseIdle /\ FilesIdle /\ MergeIdle /\ Constructed
    /\ DetectIdle /\ ExportIdle /\ StoreIdle

IterVisibleBlocks ==
    /\ returned = None
    /\ returned' = [blocks |-> iter_visible_blocks(call.message, call.flags)]
    /\ UNCHANGED <<call, chunkVars, parseVars, fileVars, mergeVars, serviceVars>>
    /\ UNCHANGED <<detectVars, exportVars, connections>>

NextVisible == IterVisibleBlocks

SpecVisible == InitVisible /\ [][NextVisible]_vars

\* The role of the message is suppressed by the flags of the call, and the
\* category of a block type is.
RoleSuppressed ==
    \/ call.message.role = "system" /\ ~call.flags.include_system
    \/ call.message.role = "tool" /\ ~call.flags.include_tool
CategorySuppressed(type) ==
    \/ type \in THINKING_BLOCK_TYPES /\ ~call.flags.include_thinking
    \/ type \in TOOL_BLOCK_TYPES /\ ~call.flags.include_tool
    \/ type \in ATTACHMENT_BLOCK_TYPES /\ ~call.flags.include_attachments
    \/ type \in SYSTEM_BLOCK_TYPES /\ ~call.flags.include_system

\* C28: iter_visible_blocks returns nothing when the role of the message is
\* suppressed, otherwise the blocks of the message, in their order, whose
\* type belongs to no suppressed category; with all four flags true it
\* returns every block.
C28_VisibleBlocksAreUnsuppressed ==
    returned # None =>
        /\ RoleSuppressed => returned.blocks = <<>>
        /\ ~RoleSuppressed =>
              returned.blocks = SelectSeq(call.message.content,
                                          LAMBDA block : ~CategorySuppressed(block.type))
        /\ call.flags = Flags(TRUE, TRUE, TRUE, TRUE) => returned.blocks = call.message.content

\* A visible message lost its thinking block and kept the text after it.
C28_Witness ==
    /\ returned # None
    /\ call.message.role = "assistant"
    /\ call.flags = Flags(TRUE, TRUE, FALSE, TRUE)
    /\ Len(call.message.content) = 2
    /\ call.message.content[1].type = "thinking"
    /\ returned.blocks = <<ContentBlock("text", <<"2">>)>>

-----------------------------------------------------------------------------
(* SettingsStore.toggle_favorite called from two threads.                  *)

\* The two threads of the server's pool that run the endpoint, and the keys
\* they toggle.
Threads == {"t1", "t2"}
StoreKeys == {<<"chatgpt", "abc">>, <<"claude", "abc">>}

\* The favorites tables: any rows over the keys.
Tables == UNION {[rows -> BOOLEAN] : rows \in SUBSET StoreKeys}

\* A call that has opened its connection and is about to SELECT.
Connected(key) ==
    [pc |-> "select", key |-> key, found |-> FALSE, read |-> FALSE, is_favorite |-> FALSE]

InitStore ==
    /\ favorites \in Tables
    /\ connections \in [Threads -> {Connected(key) : key \in StoreKeys}]
    /\ call = [initial |-> favorites]
    /\ returned = None
    /\ conversations = Structure(0, <<>>)
    /\ _conversation_map = Structure(0, <<>>)
    /\ _message_map = Structure(0, <<>>)
    /\ _asset_registry = Structure(0, <<>>)
    /\ loadPc = "idle" /\ loadIndex = 0 /\ cycle = 0 /\ loaded = "never"
    /\ settings_store = "open"
    /\ response = [op |-> "none"]
    /\ ChunkIdle /\ ParseIdle /\ FilesIdle /\ MergeIdle /\ DetectIdle /\ ExportIdle

StoreUnchanged ==
    /\ UNCHANGED <<structureVars, loadPc, loadIndex, cycle, loaded, settings_store, response>>
    /\ UNCHANGED <<chunkVars, parseVars, fileVars, mergeVars, detectVars, exportVars, callVars>>

\* A connection between its INSERT or UPDATE and its commit holds the write
\* lock of the database; the statement of another connection waits for it.
WriteLockFree(t) == \A u \in Threads \ {t} : connections[u].pc # "commit"

\* SELECT is_favorite ... and fetchone(): the row as committed, outside any
\* transaction.
Select(t) ==
    /\ connections[t].pc = "select"
    /\ connections' =
          [connections EXCEPT
              ![t].pc = "execute",
              ![t].found = connections[t].key \in DOMAIN favorites,
              ![t].read = IF connections[t].key \in DOMAIN favorites
                          THEN favorites[connections[t].key] ELSE FALSE]
    /\ UNCHANGED favorites
    /\ StoreUnchanged

\* row is None: INSERT ... VALUES (?, ?, 1).  The primary key rejects the row
\* when the table holds the key by now, and the call raises IntegrityError.
Insert(t) ==
    /\ connections[t].pc = "execute" /\ ~connections[t].found
    /\ WriteLockFree(t)
    /\ connections' =
          IF connections[t].key \in DOMAIN favorites
          THEN [connections EXCEPT ![t].pc = "raised"]
          ELSE [connections EXCEPT ![t].pc = "commit", ![t].is_favorite = TRUE]
    /\ UNCHANGED favorites
    /\ StoreUnchanged

\* row is a row: UPDATE ... SET is_favorite = not bool(row[0]).
Update(t) ==
    /\ connections[t].pc = "execute" /\ connections[t].found
    /\ WriteLockFree(t)
    /\ connections' = [connections EXCEPT ![t].pc = "commit",
                                          ![t].is_favorite = ~connections[t].read]
    /\ UNCHANGED favorites
    /\ StoreUnchanged

\* connection.commit() and `return is_favorite`.
Commit(t) ==
    /\ connections[t].pc = "commit"
    /\ favorites' = [k \in DOMAIN favorites \cup {connections[t].key} |->
                        IF k = connections[t].key THEN connections[t].is_favorite
                        ELSE favorites[k]]
    /\ connections' = [connections EXCEPT ![t].pc = "returned"]
    /\ StoreUnchanged

NextStore == \E t \in Threads : Select(t) \/ Insert(t) \/ Update(t) \/ Commit(t)

SpecStore == InitStore /\ [][NextStore]_vars

\* Whether the table marks the key as a favorite.
Favorite(rows, key) == key \in DOMAIN rows /\ rows[key]

\* C29: two concurrent toggles of one key both complete without error, they
\* return what two serial toggles return, the key ends in the state it had
\* before them, and no other key changes.
C29_ConcurrentTogglesLinearizable ==
    (/\ \A t \in Threads : connections[t].pc \in {"returned", "raised"}
     /\ connections["t1"].key = connections["t2"].key) =>
        LET key == connections["t1"].key
        IN /\ \A t \in Threads : connections[t].pc = "returned"
           /\ {connections[t].is_favorite : t \in Threads} = BOOLEAN
           /\ Favorite(favorites, key) = Favorite(call.initial, key)
           /\ \A k \in StoreKeys \ {key} :
                 Favorite(favorites, k) = Favorite(call.initial, k)

====
